---- MODULE Spec2Model ----
(***************************************************************************)
(* A model of the FLAC encoding core of CoE164-MidPoint: the CRC-8/CRC-16  *)
(* kernels, the UTF-8-style integer coder, the fixed predictor, the Rice   *)
(* coder and the PCM WAV reader.  Every kernel is a pure function of its   *)
(* arguments and is modelled by an operator that computes what the Rust    *)
(* code computes, statement by statement; the WAV reader is the stateful   *)
(* part (a file, a cursor shared by every clone of the handle, buffered    *)
(* readers).  Values wider than the model checker's integers (i128, u64,   *)
(* u32) are kept as bit vectors or as tuples of limbs.                     *)
(***************************************************************************)
EXTENDS Integers, Sequences, FiniteSets, TLC

VARIABLES
    crc_call,      \* the CRC entry point called: "none", "crc8", "crc16"
    crc_opts,      \* the CrcOptions it is called on: [poly, poly_len]
    crc_data,      \* the argument `data` of that call
    crc_pc,        \* where the call stands: "idle", "pack", "loop", "done",
                   \* "panic"
    crc_i,         \* the index i of the packing loop
    crc_comb,      \* its local comb_vec (i128)
    crc_counter,   \* its local counter (u32)
    crc_dividend,  \* its local dividend (i64)
    crc_result,    \* the value it returned, once crc_pc = "done"
    utf_call,      \* TRUE once Utf8Encoder::encode has been called
    utf_num,       \* its argument `num`, a u64 kept as two 20-bit limbs
    utf_out,       \* the byte vector it returned
    fx_call,       \* TRUE once FixedPredictor::get_residuals has been called
    fx_data,       \* its argument `data`
    fx_order,      \* its argument `predictor_order`
    fx_out,        \* what it returned: [some |-> BOOLEAN, vec |-> Seq(Int)]
    rice_call,     \* TRUE once RiceEncoderOptions::encode has been called
    rice_param,    \* its argument `rice_param`
    rice_residuals,\* its argument `residuals`
    rice_out,      \* what the call left behind
    riff_call,     \* TRUE once WaveReader::read_riff_chunk has been called
    riff_file,     \* the bytes of the file it is called on
    riff_result,   \* the Result it returned
    fmt_call,      \* TRUE once WaveReader::read_fmt_chunk has been called
    fmt_file,      \* the bytes of the file it is called on
    fmt_checks,    \* whether the build checks arithmetic overflow
    fmt_result,    \* the Result it returned, or the panic it ended in
    wav_call,      \* TRUE once WaveReader::open_pcm has been called
    wav_layout,    \* what the file was built from
    wav_file,      \* the bytes of the file
    wav_pos,       \* the offset of the open file, shared by every handle
    wav_result,    \* Ok, or the error open_pcm returned
    wav_info,      \* the PCMWaveInfo's riff_header and fmt_header
    wav_chunks,    \* the PCMWaveInfo's data_chunks
    wav_items,     \* per data chunk, what its next() has returned so far
    win_call,      \* TRUE once PCMWaveDataChunk::chunks has been called
    win_index,     \* the data chunk it consumed
    win_size,      \* the window's chunk_size (usize)
    win_start,     \* the offset and buffer the chunk had at that moment
    win_pc,        \* "run", or "panic" once a call of next() has panicked
    win_items,     \* what the window's next() has returned so far
    best_call,     \* TRUE once FixedPredictor::best_predictor_order was called
    best_data,     \* its argument `data`
    best_out,      \* the Option<u8> it returned
    zz_call,       \* TRUE once RiceEncoderOptions::zigzag has been called
    zz_num,        \* its argument `num`
    zz_out,        \* the u64 it returned
    prec_call,     \* TRUE once VarPredictor::get_best_precision was called
    prec_bps,      \* its argument `bps`
    prec_block,    \* its argument `block_size`
    prec_out,      \* the u32 it returned
    quant_call,    \* TRUE once VarPredictor::quantize_coeffs has been called
    quant_coefs,   \* its argument `lpc_coefs`
    quant_precision, \* its argument `precision`
    quant_checks,  \* whether the build checks integer overflow
    quant_out,     \* how the call ended, and the shift it returned
    mpo_call,      \* TRUE once max_rice_partition_order has been called
    mpo_block,     \* its argument `block_size`
    mpo_out,       \* the u8 it returned
    autoc_call,    \* TRUE once VarPredictor::get_autocorrelation has been called
    autoc_data,    \* its argument `data`
    autoc_lag,     \* its argument `lag`
    autoc_out,     \* how the call ended, and the Vec<f64> it returned
    coef_call,     \* TRUE once VarPredictor::get_predictor_coeffs has been called
    coef_order,    \* its argument `predictor_order`; `autoc` is autoc_out.vec
    coef_checks,   \* whether the build checks integer overflow
    coef_out       \* how the call ended, and the Vec<f64> it returned

crcVars  == <<crc_call, crc_opts, crc_data, crc_pc, crc_i, crc_comb, crc_counter,
             crc_dividend, crc_result>>
utfVars  == <<utf_call, utf_num, utf_out>>
fxVars   == <<fx_call, fx_data, fx_order, fx_out>>
riceVars == <<rice_call, rice_param, rice_residuals, rice_out>>

riffVars == <<riff_call, riff_file, riff_result>>
fmtVars  == <<fmt_call, fmt_file, fmt_checks, fmt_result>>
wavVars  == <<wav_call, wav_layout, wav_file, wav_pos, wav_result, wav_info,
              wav_chunks, wav_items>>
winVars  == <<win_call, win_index, win_size, win_start, win_pc, win_items>>
bestVars == <<best_call, best_data, best_out>>
zzVars   == <<zz_call, zz_num, zz_out>>
precVars == <<prec_call, prec_bps, prec_block, prec_out>>
quantVars == <<quant_call, quant_coefs, quant_precision, quant_checks, quant_out>>
mpoVars == <<mpo_call, mpo_block, mpo_out>>
autocVars == <<autoc_call, autoc_data, autoc_lag, autoc_out>>
coefVars == <<coef_call, coef_order, coef_checks, coef_out>>

vars == <<crcVars, utfVars, fxVars, riceVars, riffVars, fmtVars, wavVars, winVars, bestVars, zzVars, precVars, quantVars, mpoVars, autocVars, coefVars>>

----------------------------------------------------------------------------
(* Bounds of the model *)

MaxCrcLen == 3

\* the byte values the CRC messages are built from
CrcBytes == {0, 1, 7, 16, 255}

\* Utf8Encoder::encode is called on every number up to this one, and on the
\* numbers around each boundary of its table
MaxUtfSmall == 400

\* the longest sample block handed to the fixed predictor, and its samples
MaxSamples == 5
SampleValues == {-3, 0, 1, 2}

\* the longest residual vector handed to the Rice encoder, its residuals,
\* and the Rice parameters tried next to the parameters of the two tests
MaxResiduals == 3
ResidualValues == {-13, -1, 0, 3}
RiceParams == {0, 1, 3, 11, 30}

----------------------------------------------------------------------------
(* Integer helpers *)

Pow2(n) == 2 ^ n

BitOf(x, k) == (x \div Pow2(k)) % 2

RECURSIVE Xor(_, _)
Xor(a, b) ==
    IF a = 0 THEN b
    ELSE IF b = 0 THEN a
    ELSE (((a % 2) + (b % 2)) % 2) + 2 * Xor(a \div 2, b \div 2)

RECURSIVE ILog2(_)
ILog2(x) == IF x <= 1 THEN 0 ELSE 1 + ILog2(x \div 2)

RECURSIVE SeqsUpTo(_, _)
SeqsUpTo(S, n) ==
    IF n = 0 THEN {<<>>}
    ELSE LET shorter == SeqsUpTo(S, n - 1)
         IN  shorter \cup {Append(s, x) : s \in {t \in shorter : Len(t) = n - 1}, x \in S}

----------------------------------------------------------------------------
(* i128 accumulator of the CRC kernels: a tuple of 128 bits, most          *)
(* significant first, so that bit k of the value is bv[I128Bits - k]       *)

I128Bits == 128

Zeros(n) == [i \in 1..n |-> 0]

BvBit(bv, k) == bv[I128Bits - k]

BvZero == Zeros(I128Bits) \o <<>>

\* `x as i128` for an unsigned x of at most 16 bits
BvFromNat(x) == Zeros(I128Bits - 16) \o [i \in 1..16 |-> BitOf(x, 16 - i)]

\* `bv << w`: the w top bits are lost, as in Rust (only the amount is checked)
BvShl(bv, w) == SubSeq(bv, w + 1, I128Bits) \o Zeros(w)

\* `bv + x`, two's complement, by ripple carry from bit k upwards
RECURSIVE BvAddFrom(_, _, _, _)
BvAddFrom(bv, x, k, carry) ==
    IF k = I128Bits THEN <<>>
    ELSE IF x = 0 /\ carry = 0 THEN SubSeq(bv, 1, I128Bits - k)
    ELSE LET sum == BvBit(bv, k) + (x % 2) + carry
         IN  Append(BvAddFrom(bv, x \div 2, k + 1, sum \div 2), sum % 2)

BvAddNat(bv, x) == BvAddFrom(bv, x, 0, 0)

\* ilog2 panics unless its argument is positive
BvIsPositive(bv) == bv[1] = 0 /\ \E i \in 1..I128Bits : bv[i] = 1

BvILog2(bv) ==
    LET top == CHOOSE i \in 1..I128Bits : bv[i] = 1 /\ \A j \in 1..(i - 1) : bv[j] = 0
    IN  I128Bits - top

\* the value of bits from..k of bv
RECURSIVE BvHighValue(_, _, _)
BvHighValue(bv, from, k) ==
    IF k < from THEN 0
    ELSE BvBit(bv, from) + 2 * BvHighValue(bv, from + 1, k)

\* `(bv >> counter) as i64`: the shift is arithmetic, so a set sign bit gives
\* a negative value (any negative value makes the next ilog2 panic)
BvShrToInt(bv, counter) ==
    IF bv[1] = 1 THEN -1
    ELSE IF \A i \in 1..I128Bits : bv[i] = 0 THEN 0
    ELSE BvHighValue(bv, counter, BvILog2(bv))

----------------------------------------------------------------------------
(* CrcOptions::build_crc8 / build_crc16: the two bodies are the same text  *)
(* but for the integer types, so one set of definitions models both        *)

CrcOptionsNew(poly, poly_len) == [poly |-> poly, poly_len |-> poly_len]

CrcDivisor(opts) == Pow2(opts.poly_len) + opts.poly

\* one iteration of the `for i in 0..data.len()` loop that packs data into
\* comb_vec (i counts from 0 as in the source; data is 1-based here)
CrcPack(comb_vec, data, i, poly_len) ==
    LET added == IF i = 0 THEN BvFromNat(data[i + 1])
                 ELSE BvAddNat(comb_vec, data[i + 1])
    IN  BvShl(added, poly_len)

\* the second `comb_vec = comb_vec << self.poly_len`
CrcShiftedMessage(comb_vec, poly_len) == BvShl(comb_vec, poly_len)

\* `(comb_vec & (0b1 << (counter - 1))) >> counter - 1`
CrcAppendBit(comb_vec, counter) == BvBit(comb_vec, counter - 1)

\* `dividend.ilog2() >= poly_len`, for a positive dividend
CrcNeedsXor(dividend, poly_len) == ILog2(dividend) >= poly_len

\* `dividend as u8` / `dividend as u16`
CrcTruncate(dividend, poly_len) == dividend % Pow2(poly_len)

----------------------------------------------------------------------------
(* The CRC an MSB-first XOR long division gives: the remainder of the      *)
(* message bits followed by poly_len zero bits, modulo the generator       *)

ByteBits(d) == [i \in 1..8 |-> BitOf(d, 8 - i)]

\* one division step: the remainder so far takes in the next message bit
DivisionStep(rem, bit, poly, poly_len) ==
    LET top     == rem \div Pow2(poly_len - 1)
        shifted == (rem % Pow2(poly_len - 1)) * 2 + bit
    IN  IF top = 1 THEN Xor(shifted, poly) ELSE shifted

RECURSIVE DivideBits(_, _, _, _, _)
DivideBits(bits, i, rem, poly, poly_len) ==
    IF i > Len(bits) THEN rem
    ELSE DivideBits(bits, i + 1, DivisionStep(rem, bits[i], poly, poly_len),
                    poly, poly_len)

RECURSIVE DivideBytes(_, _, _, _, _)
DivideBytes(data, i, rem, poly, poly_len) ==
    IF i > Len(data) THEN rem
    ELSE DivideBytes(data, i + 1,
                     DivideBits(ByteBits(data[i]), 1, rem, poly, poly_len),
                     poly, poly_len)

RefCrc(data, poly, poly_len) ==
    DivideBits(Zeros(poly_len), 1, DivideBytes(data, 1, 0, poly, poly_len),
               poly, poly_len)

----------------------------------------------------------------------------
(* The CRC calls, one step per iteration of the packing loop and of the   *)
(* `while` loop.  ilog2 of a value that is not positive panics.  The      *)
(* kernels keep no state between calls, so a behaviour is one call on an  *)
(* argument drawn from the bounded input set.                             *)

Crc8Options  == CrcOptionsNew(7, 8)
Crc16Options == CrcOptionsNew(32773, 16)

Crc8Sample      == <<16>>
Crc8SampleIetf  == <<255, 248, 105, 24, 0, 0>>
Crc16Sample     == <<16, 0>>
Crc16SampleIetf == <<255, 248, 105, 24, 0, 0, 191, 3, 88, 253, 3, 18, 139>>

CrcInputs == SeqsUpTo(CrcBytes, MaxCrcLen)

\* tests::sample_crc8_01 and tests::sample_crc8_ietf_01
SampleCrc8 ==
    \E data \in {Crc8Sample, Crc8SampleIetf} :
        /\ crc_pc = "idle"
        /\ crc_call' = "crc8"
        /\ crc_opts' = Crc8Options
        /\ crc_data' = data
        /\ crc_pc' = "pack"
        /\ crc_i' = 0
        /\ crc_comb' = BvZero
        /\ UNCHANGED <<crc_counter, crc_dividend, crc_result>>
        /\ UNCHANGED <<utfVars, fxVars, riceVars, riffVars, fmtVars, wavVars, winVars, bestVars, zzVars, precVars, quantVars, mpoVars, autocVars, coefVars>>

\* tests::sample_crc16_01 and tests::sample_crc16_ietf_01
SampleCrc16 ==
    \E data \in {Crc16Sample, Crc16SampleIetf} :
        /\ crc_pc = "idle"
        /\ crc_call' = "crc16"
        /\ crc_opts' = Crc16Options
        /\ crc_data' = data
        /\ crc_pc' = "pack"
        /\ crc_i' = 0
        /\ crc_comb' = BvZero
        /\ UNCHANGED <<crc_counter, crc_dividend, crc_result>>
        /\ UNCHANGED <<utfVars, fxVars, riceVars, riffVars, fmtVars, wavVars, winVars, bestVars, zzVars, precVars, quantVars, mpoVars, autocVars, coefVars>>

CallBuildCrc8 ==
    \E data \in CrcInputs \ {Crc8Sample} :
        /\ crc_pc = "idle"
        /\ crc_call' = "crc8"
        /\ crc_opts' = Crc8Options
        /\ crc_data' = data
        /\ crc_pc' = "pack"
        /\ crc_i' = 0
        /\ crc_comb' = BvZero
        /\ UNCHANGED <<crc_counter, crc_dividend, crc_result>>
        /\ UNCHANGED <<utfVars, fxVars, riceVars, riffVars, fmtVars, wavVars, winVars, bestVars, zzVars, precVars, quantVars, mpoVars, autocVars, coefVars>>

CallBuildCrc16 ==
    \E data \in CrcInputs \ {Crc16Sample} :
        /\ crc_pc = "idle"
        /\ crc_call' = "crc16"
        /\ crc_opts' = Crc16Options
        /\ crc_data' = data
        /\ crc_pc' = "pack"
        /\ crc_i' = 0
        /\ crc_comb' = BvZero
        /\ UNCHANGED <<crc_counter, crc_dividend, crc_result>>
        /\ UNCHANGED <<utfVars, fxVars, riceVars, riffVars, fmtVars, wavVars, winVars, bestVars, zzVars, precVars, quantVars, mpoVars, autocVars, coefVars>>

\* one iteration of the packing loop
CrcPackStep ==
    /\ crc_pc = "pack" /\ crc_i < Len(crc_data)
    /\ crc_comb' = CrcPack(crc_comb, crc_data, crc_i, crc_opts.poly_len)
    /\ crc_i' = crc_i + 1
    /\ UNCHANGED <<crc_call, crc_opts, crc_data, crc_pc, crc_counter,
                   crc_dividend, crc_result>>
    /\ UNCHANGED <<utfVars, fxVars, riceVars, riffVars, fmtVars, wavVars, winVars, bestVars, zzVars, precVars, quantVars, mpoVars, autocVars, coefVars>>

\* after the packing loop: counter = comb_vec.ilog2(), the second shift of
\* comb_vec, and the first dividend
CrcStartDivision ==
    /\ crc_pc = "pack" /\ crc_i = Len(crc_data)
    /\ IF BvIsPositive(crc_comb)
       THEN LET counter  == BvILog2(crc_comb)
                comb_vec == CrcShiftedMessage(crc_comb, crc_opts.poly_len)
            IN  /\ crc_pc' = "loop"
                /\ crc_comb' = comb_vec
                /\ crc_counter' = counter
                /\ crc_dividend' = BvShrToInt(comb_vec, counter)
       ELSE /\ crc_pc' = "panic"
            /\ UNCHANGED <<crc_comb, crc_counter, crc_dividend>>
    /\ UNCHANGED <<crc_call, crc_opts, crc_data, crc_i, crc_result>>
    /\ UNCHANGED <<utfVars, fxVars, riceVars, riffVars, fmtVars, wavVars, winVars, bestVars, zzVars, precVars, quantVars, mpoVars, autocVars, coefVars>>

\* `dividend = divisor ^ dividend` inside the loop
CrcLoopXor ==
    /\ crc_pc = "loop" /\ crc_counter # 0 /\ crc_dividend > 0
    /\ CrcNeedsXor(crc_dividend, crc_opts.poly_len)
    /\ crc_dividend' = Xor(CrcDivisor(crc_opts), crc_dividend)
    /\ UNCHANGED <<crc_call, crc_opts, crc_data, crc_pc, crc_i, crc_comb,
                   crc_counter, crc_result>>
    /\ UNCHANGED <<utfVars, fxVars, riceVars, riffVars, fmtVars, wavVars, winVars, bestVars, zzVars, precVars, quantVars, mpoVars, autocVars, coefVars>>

\* the else branch: shift, append the next bit of comb_vec, count it
CrcLoopShift ==
    /\ crc_pc = "loop" /\ crc_counter # 0 /\ crc_dividend > 0
    /\ ~CrcNeedsXor(crc_dividend, crc_opts.poly_len)
    /\ crc_dividend' = crc_dividend * 2 + CrcAppendBit(crc_comb, crc_counter)
    /\ crc_counter' = crc_counter - 1
    /\ UNCHANGED <<crc_call, crc_opts, crc_data, crc_pc, crc_i, crc_comb,
                   crc_result>>
    /\ UNCHANGED <<utfVars, fxVars, riceVars, riffVars, fmtVars, wavVars, winVars, bestVars, zzVars, precVars, quantVars, mpoVars, autocVars, coefVars>>

\* `dividend.ilog2()` on a dividend that is not positive, in the loop
\* condition or in the test after the loop
CrcILog2Panic ==
    /\ crc_pc = "loop" /\ crc_dividend <= 0
    /\ crc_pc' = "panic"
    /\ UNCHANGED <<crc_call, crc_opts, crc_data, crc_i, crc_comb, crc_counter,
                   crc_dividend, crc_result>>
    /\ UNCHANGED <<utfVars, fxVars, riceVars, riffVars, fmtVars, wavVars, winVars, bestVars, zzVars, precVars, quantVars, mpoVars, autocVars, coefVars>>

\* after the loop: one more XOR if the dividend is still as long as the
\* divisor, then the truncating return
CrcReturn ==
    /\ crc_pc = "loop" /\ crc_counter = 0 /\ crc_dividend > 0
    /\ LET last == IF CrcNeedsXor(crc_dividend, crc_opts.poly_len)
                   THEN Xor(CrcDivisor(crc_opts), crc_dividend)
                   ELSE crc_dividend
       IN  /\ crc_dividend' = last
           /\ crc_result' = CrcTruncate(last, crc_opts.poly_len)
    /\ crc_pc' = "done"
    /\ UNCHANGED <<crc_call, crc_opts, crc_data, crc_i, crc_comb, crc_counter>>
    /\ UNCHANGED <<utfVars, fxVars, riceVars, riffVars, fmtVars, wavVars, winVars, bestVars, zzVars, precVars, quantVars, mpoVars, autocVars, coefVars>>

----------------------------------------------------------------------------
(* u64 arguments of Utf8Encoder::encode: the pair <<hi, lo>> stands for    *)
(* hi * 2^20 + lo, each limb below 2^20                                    *)

U64(hi, lo) == <<hi, lo>>

U64Less(a, b) == a[1] < b[1] \/ (a[1] = b[1] /\ a[2] < b[2])

\* `(num & (0b1 << k)) >> k`
U64Bit(num, k) ==
    IF k < 20 THEN BitOf(num[2], k) ELSE BitOf(num[1], k - 20)

(* Utf8Encoder::encode *)

\* the if / else-if chain that picks num_bytes and max_bits; the literals
\* are 65, 2_049, 65_537, 2_097_153 = 2 * 2^20 + 1, 67_108_865 = 64 * 2^20 + 1,
\* 2_147_483_649 = 2048 * 2^20 + 1 and 1_099_511_627_777 = 2^20 * 2^20 + 1
Utf8Template(num) ==
    IF U64Less(num, U64(0, 65)) THEN [num_bytes |-> 0, max_bits |-> 7]
    ELSE IF U64Less(num, U64(0, 2049)) THEN [num_bytes |-> 2, max_bits |-> 11]
    ELSE IF U64Less(num, U64(0, 65537)) THEN [num_bytes |-> 3, max_bits |-> 16]
    ELSE IF U64Less(num, U64(2, 1)) THEN [num_bytes |-> 4, max_bits |-> 21]
    ELSE IF U64Less(num, U64(64, 1)) THEN [num_bytes |-> 5, max_bits |-> 26]
    ELSE IF U64Less(num, U64(2048, 1)) THEN [num_bytes |-> 6, max_bits |-> 31]
    ELSE IF U64Less(num, U64(1048576, 1)) THEN [num_bytes |-> 7, max_bits |-> 40]
    ELSE [num_bytes |-> 0, max_bits |-> 0]

\* `for i in 0..(num_bytes-1) { header = header + 1; header = header << 1; }`
RECURSIVE Utf8HeaderOnes(_, _, _)
Utf8HeaderOnes(header, i, num_bytes) ==
    IF i >= num_bytes - 1 THEN header
    ELSE Utf8HeaderOnes((header + 1) * 2, i + 1, num_bytes)

\* `for i in 1..(7-num_bytes)`: the bits of num that follow in the first byte
RECURSIVE Utf8HeaderBits(_, _, _, _)
Utf8HeaderBits(header, i, num, t) ==
    IF i >= 7 - t.num_bytes THEN header
    ELSE Utf8HeaderBits(header * 2 + U64Bit(num, t.max_bits - i), i + 1, num, t)

Utf8Header(num, t) ==
    LET ones == IF t.num_bytes # 0 THEN Utf8HeaderOnes(0, 0, t.num_bytes) ELSE 0
    IN  IF t.num_bytes # 7 THEN Utf8HeaderBits(ones, 1, num, t) ELSE ones

\* `for i in (8-num_bytes)..=max_bits`: six bits to a byte under the 10 mark
RECURSIVE Utf8Tail(_, _, _, _, _, _)
Utf8Tail(data_store, nex_byte, reset, i, num, t) ==
    IF i > t.max_bits THEN data_store
    ELSE LET filled == nex_byte + U64Bit(num, t.max_bits - i)
         IN  IF reset + 1 = 6
             THEN Utf8Tail(Append(data_store, (filled + 128) % 256), 0, 0,
                           i + 1, num, t)
             ELSE Utf8Tail(data_store, filled * 2, reset + 1, i + 1, num, t)

Utf8Encode(num) ==
    LET t     == Utf8Template(num)
        first == <<Utf8Header(num, t) % 256>>
    IN  IF t.num_bytes = 0 THEN first
        ELSE Utf8Tail(first, 0, 0, 8 - t.num_bytes, num, t)

----------------------------------------------------------------------------
(* The UTF-8-style table: byte count, leading byte pattern, payload bits   *)
(* laid MSB-first over the x slots                                         *)

\* the number of bytes of the row n falls in; the rows end at 127, 2_047,
\* 65_535, 2_097_151, 67_108_863, 2_147_483_647
TableBytes(n) ==
    IF U64Less(n, U64(0, 128)) THEN 1
    ELSE IF U64Less(n, U64(0, 2048)) THEN 2
    ELSE IF U64Less(n, U64(0, 65536)) THEN 3
    ELSE IF U64Less(n, U64(2, 0)) THEN 4
    ELSE IF U64Less(n, U64(64, 0)) THEN 5
    ELSE IF U64Less(n, U64(2048, 0)) THEN 6
    ELSE 7

\* 0xxxxxxx, 110xxxxx, 1110xxxx, 11110xxx, 111110xx, 1111110x, 11111110
TablePrefix(k) == IF k = 1 THEN 0 ELSE 256 - Pow2(8 - k)

\* the value of bits lo..hi of n
RECURSIVE U64Field(_, _, _)
U64Field(n, lo, hi) ==
    IF hi < lo THEN 0 ELSE U64Bit(n, lo) + 2 * U64Field(n, lo + 1, hi)

TableEncode(n) ==
    LET k == TableBytes(n)
        slots == IF k = 1 THEN 7 ELSE 7 - k
    IN  [j \in 1..k |->
            IF j = 1 THEN TablePrefix(k) + U64Field(n, 6 * (k - 1), 6 * (k - 1) + slots - 1)
            ELSE 128 + U64Field(n, 6 * (k - j), 6 * (k - j) + 5)]

----------------------------------------------------------------------------
(* The calls of Utf8Encoder::encode *)

\* tests::sample_01 and tests::sample_02
Utf8Samples == {U64(0, 0), U64(0, 356)}

\* the last number of each row of the table and the first of the next, and
\* the largest number the table covers, 68_719_476_735
Utf8Boundaries ==
    {U64(0, 127), U64(0, 128), U64(0, 2047), U64(0, 2048), U64(0, 65535),
     U64(0, 65536), U64(1, 1048575), U64(2, 0), U64(63, 1048575), U64(64, 0),
     U64(2047, 1048575), U64(2048, 0), U64(65535, 1048575)}

Utf8Inputs == {U64(0, n) : n \in 0..MaxUtfSmall} \cup Utf8Boundaries

SampleUtf8 ==
    \E num \in Utf8Samples :
        /\ ~utf_call
        /\ utf_call' = TRUE
        /\ utf_num' = num
        /\ utf_out' = Utf8Encode(num)
        /\ UNCHANGED <<crcVars, fxVars, riceVars, riffVars, fmtVars, wavVars, winVars, bestVars, zzVars, precVars, quantVars, mpoVars, autocVars, coefVars>>

CallUtf8Encode ==
    \E num \in Utf8Inputs \ Utf8Samples :
        /\ ~utf_call
        /\ utf_call' = TRUE
        /\ utf_num' = num
        /\ utf_out' = Utf8Encode(num)
        /\ UNCHANGED <<crcVars, fxVars, riceVars, riffVars, fmtVars, wavVars, winVars, bestVars, zzVars, precVars, quantVars, mpoVars, autocVars, coefVars>>

----------------------------------------------------------------------------
(* FixedPredictor::get_residuals *)

None == [some |-> FALSE, vec |-> <<>>]
Some(v) == [some |-> TRUE, vec |-> v]

\* the prediction `r` of each arm of the match, at index i of the source
\* (0-based; the vectors are 1-based here): orders 1 and 2 read return_data,
\* which the loop is overwriting, order 3 reads both, order 4 reads data
FixedPrediction(order, data, return_data, i) ==
    CASE order = 1 -> return_data[i]
      [] order = 2 -> 2 * return_data[i] - return_data[i - 1]
      [] order = 3 -> 3 * return_data[i] - 3 * data[i - 1] + data[i - 2]
      [] order = 4 -> 4 * data[i] - 6 * data[i - 1] + 4 * data[i - 2] - data[i - 3]

\* `for i in order..return_data.len() { return_data[i] -= r; }`
RECURSIVE FixedLoop(_, _, _, _)
FixedLoop(order, data, return_data, i) ==
    IF i >= Len(return_data) THEN return_data
    ELSE FixedLoop(order, data,
                   [return_data EXCEPT
                       ![i + 1] = @ - FixedPrediction(order, data, return_data, i)],
                   i + 1)

\* what the arm leaves in return_data before its loop: order 1 zeroes the
\* first element, the other arms leave the copy of data as it is
FixedWarmUp(order, data) ==
    IF order = 1 THEN [data EXCEPT ![1] = 0] ELSE data

\* get_residuals with order 0 run through the arm of order 1
get_residuals_differenced(data, predictor_order) ==
    IF Len(data) < predictor_order THEN None
    ELSE IF predictor_order > 4 THEN None
    ELSE IF Len(data) < predictor_order + 1 THEN Some(data)
    ELSE LET arm == IF predictor_order = 0 THEN 1 ELSE predictor_order
         IN  Some(FixedLoop(arm, data, FixedWarmUp(arm, data), arm))

\* get_residuals without the length check of each arm
get_residuals_unchecked(data, predictor_order) ==
    IF Len(data) < predictor_order THEN None
    ELSE IF predictor_order > 4 THEN None
    ELSE IF predictor_order = 0 THEN Some(data)
    ELSE Some(FixedLoop(predictor_order, data,
                        FixedWarmUp(predictor_order, data), predictor_order))

get_residuals(data, predictor_order) ==
    IF Len(data) < predictor_order THEN None
    ELSE IF predictor_order > 4 THEN None
    ELSE IF predictor_order = 0 THEN Some(data)
    ELSE IF Len(data) < predictor_order + 1 THEN None
    ELSE Some(FixedLoop(predictor_order, data,
                        FixedWarmUp(predictor_order, data), predictor_order))

----------------------------------------------------------------------------
(* The fixed predictors of the FLAC format, on the samples themselves *)

FlacPrediction(k, s, i) ==
    CASE k = 0 -> 0
      [] k = 1 -> s[i - 1]
      [] k = 2 -> 2 * s[i - 1] - s[i - 2]
      [] k = 3 -> 3 * s[i - 1] - 3 * s[i - 2] + s[i - 3]
      [] k = 4 -> 4 * s[i - 1] - 6 * s[i - 2] + 4 * s[i - 3] - s[i - 4]

\* the residuals of samples k+1..Len(s) (1-based), in order
FlacResiduals(k, s) ==
    [j \in 1..(Len(s) - k) |-> s[j + k] - FlacPrediction(k, s, j + k)]

----------------------------------------------------------------------------
(* The calls of FixedPredictor::get_residuals *)

\* the input and the expected output of tests::sample_ietf_02a
FixedSampleIetf ==
    <<4302, 7496, 6199, 7427, 6484, 7436, 6740, 7508,
      6984, 7583, 7182, -5990, -6306, -6032, -6299, -6165>>
FixedSampleIetfResiduals ==
    <<3194, -1297, 1228, -943, 952, -696, 768, -524,
      599, -401, -13172, -316, 274, -267, 134>>

FixedInputs == SeqsUpTo(SampleValues, MaxSamples)

FixedOrders == 0..5

SampleGetResiduals ==
    /\ ~fx_call
    /\ fx_call' = TRUE
    /\ fx_data' = FixedSampleIetf
    /\ fx_order' = 1
    /\ fx_out' = get_residuals(FixedSampleIetf, 1)
    /\ UNCHANGED <<crcVars, utfVars, riceVars, riffVars, fmtVars, wavVars, winVars, bestVars, zzVars, precVars, quantVars, mpoVars, autocVars, coefVars>>

CallGetResiduals ==
    \E data \in FixedInputs, order \in FixedOrders :
        /\ ~fx_call
        /\ fx_call' = TRUE
        /\ fx_data' = data
        /\ fx_order' = order
        /\ fx_out' = get_residuals(data, order)
        /\ UNCHANGED <<crcVars, utfVars, riceVars, riffVars, fmtVars, wavVars, winVars, bestVars, zzVars, precVars, quantVars, mpoVars, autocVars, coefVars>>

----------------------------------------------------------------------------
(* FixedPredictor::best_predictor_order *)

NoOrder == [some |-> FALSE, val |-> 0]
SomeOrder(k) == [some |-> TRUE, val |-> k]

RECURSIVE SumSeq(_)
SumSeq(v) == IF v = <<>> THEN 0 ELSE Head(v) + SumSeq(Tail(v))

Abs(x) == IF x < 0 THEN -x ELSE x

\* `for entry in value_arr { abs_sum += entry; } abs_sum = abs_sum.abs();`
BestAbsSum(value_arr) == Abs(SumSeq(value_arr))

\* `for q in 1..resids.len()`: the first index of the least element
RECURSIVE BestMinIndex(_, _, _, _)
BestMinIndex(resids, q, min, min_index) ==
    IF q >= Len(resids) THEN min_index
    ELSE IF resids[q + 1] < min
         THEN BestMinIndex(resids, q + 1, resids[q + 1], q)
         ELSE BestMinIndex(resids, q + 1, min, min_index)

\* `for i in 0..=4`: None as soon as one order has no residuals
best_predictor_order(data) ==
    IF \E i \in 0..4 : ~get_residuals(data, i).some THEN NoOrder
    ELSE LET resids == [i \in 1..5 |-> BestAbsSum(get_residuals(data, i - 1).vec)]
         IN  SomeOrder(BestMinIndex(resids, 1, resids[1], 0))

CallBestPredictorOrder ==
    /\ ~best_call
    /\ \E data \in FixedInputs :
        /\ best_call' = TRUE
        /\ best_data' = data
        /\ best_out' = best_predictor_order(data)
    /\ UNCHANGED <<crcVars, utfVars, fxVars, riceVars, riffVars, fmtVars, wavVars, winVars, zzVars, precVars, quantVars, mpoVars, autocVars, coefVars>>

----------------------------------------------------------------------------
(* RiceEncoderOptions::zigzag and RiceEncoderOptions::encode *)

\* an i64 is a tuple of 64 bits, most significant first, in two's
\* complement; the integers of the model are those below 2^31 in magnitude
I64Bits == 64

\* bit k (from 0) of a natural number below 2^31
NatBit(y, k) == IF k > 30 THEN 0 ELSE BitOf(y, k)

I64FromInt(x) ==
    [i \in 1..I64Bits |->
        IF x >= 0 THEN NatBit(x, I64Bits - i) ELSE 1 - NatBit(-x - 1, I64Bits - i)]

\* `num >> 63` as a shift that brings in zeros
I64ShrLogical(b, n) ==
    [i \in 1..I64Bits |-> IF i <= n THEN 0 ELSE b[i - n]]

\* `num >> 63` on an i64: the shift is arithmetic, the sign bit fills in
I64Shr(b, n) ==
    [i \in 1..I64Bits |-> IF i <= n THEN b[1] ELSE b[i - n]]

\* `num << 1`: the top bit is dropped
I64Shl(b, n) ==
    [i \in 1..I64Bits |-> IF i + n <= I64Bits THEN b[i + n] ELSE 0]

I64Xor(a, b) == [i \in 1..I64Bits |-> (a[i] + b[i]) % 2]

\* `q as u64` read back as an integer of the model; -1 stands for a value
\* of 2^31 or more
RECURSIVE U64LowValue(_, _)
U64LowValue(b, i) ==
    IF i > I64Bits THEN 0
    ELSE b[i] * 2 ^ (I64Bits - i) + U64LowValue(b, i + 1)

U64ToInt(b) ==
    IF \E i \in 1..(I64Bits - 31) : b[i] = 1 THEN -1
    ELSE U64LowValue(b, I64Bits - 30)

\* `let q = (num >> 63) ^ (num << 1); return q as u64;`
zigzag(num) ==
    LET bits == I64FromInt(num)
    IN  U64ToInt(I64Xor(I64Shr(bits, 63), I64Shl(bits, 1)))

\* the body of encode: it fills absolute_residuals with the zigzag values,
\* asks best_parameters for a parameter it does not use, and ends there;
\* no stream is built and no RiceEncodedStream is returned
RiceEncode(param, residuals) ==
    [returned |-> FALSE,
     absolute_residuals |-> [i \in 1..Len(residuals) |-> zigzag(residuals[i])]]

----------------------------------------------------------------------------
(* The Rice code of the FLAC format *)

FlacZigzag(r) == IF r >= 0 THEN 2 * r ELSE -2 * r - 1

\* q zero bits, the stop bit, then the M low bits most significant first
RiceCodeword(M, r) ==
    LET z == FlacZigzag(r)
    IN  Zeros(z \div Pow2(M)) \o <<1>> \o [j \in 1..M |-> BitOf(z, M - j)]

RECURSIVE RiceBits(_, _)
RiceBits(M, r) ==
    IF r = <<>> THEN <<>> ELSE RiceCodeword(M, Head(r)) \o RiceBits(M, Tail(r))

RECURSIVE BitsValue(_)
BitsValue(bits) ==
    IF bits = <<>> THEN 0
    ELSE 2 * BitsValue(SubSeq(bits, 1, Len(bits) - 1)) + bits[Len(bits)]

ExtraBits(bits) == (8 - (Len(bits) % 8)) % 8

PackBits(bits) ==
    LET padded == bits \o Zeros(ExtraBits(bits))
    IN  [b \in 1..(Len(padded) \div 8) |->
            BitsValue(SubSeq(padded, 8 * b - 7, 8 * b))]

FlacRiceStream(M, r) ==
    [returned |-> TRUE,
     stream |-> PackBits(RiceBits(M, r)),
     param |-> M,
     extra_bits_len |-> ExtraBits(RiceBits(M, r))]

----------------------------------------------------------------------------
(* The calls of RiceEncoderOptions::encode *)

\* tests::encode_sample_ietf_03 and tests::encode_sample_ietf_02
RiceSample03 == <<3, <<3, -1, -13>>>>
RiceSample02 == <<11, FixedSampleIetfResiduals>>

RiceInputs == RiceParams \X SeqsUpTo(ResidualValues, MaxResiduals)

SampleRiceEncode ==
    \E in \in {RiceSample03, RiceSample02} :
        /\ ~rice_call
        /\ rice_call' = TRUE
        /\ rice_param' = in[1]
        /\ rice_residuals' = in[2]
        /\ rice_out' = RiceEncode(in[1], in[2])
        /\ UNCHANGED <<crcVars, utfVars, fxVars, riffVars, fmtVars, wavVars, winVars, bestVars, zzVars, precVars, quantVars, mpoVars, autocVars, coefVars>>

CallRiceEncode ==
    \E in \in RiceInputs \ {RiceSample03} :
        /\ ~rice_call
        /\ rice_call' = TRUE
        /\ rice_param' = in[1]
        /\ rice_residuals' = in[2]
        /\ rice_out' = RiceEncode(in[1], in[2])
        /\ UNCHANGED <<crcVars, utfVars, fxVars, riffVars, fmtVars, wavVars, winVars, bestVars, zzVars, precVars, quantVars, mpoVars, autocVars, coefVars>>

----------------------------------------------------------------------------
(* Calls of RiceEncoderOptions::zigzag *)

MaxZigzag == 100

CallZigzag ==
    /\ ~zz_call
    /\ \E num \in (-MaxZigzag)..MaxZigzag :
        /\ zz_call' = TRUE
        /\ zz_num' = num
        /\ zz_out' = zigzag(num)
    /\ UNCHANGED <<crcVars, utfVars, fxVars, riceVars, riffVars, fmtVars, wavVars, winVars, bestVars, precVars, quantVars, mpoVars, autocVars, coefVars>>

----------------------------------------------------------------------------
(* Bytes, and the integers read from them.  A u16 is an integer; a u32 is   *)
(* the pair <<hi, lo>> of its 16-bit halves, hi * 2^16 + lo.  Arithmetic on *)
(* them goes through little-endian base-256 digits.                         *)

U32(hi, lo) == <<hi, lo>>

\* ReadBytesExt::read_u16::<LittleEndian> on a 2-byte buffer
ReadU16LE(buffer) == buffer[2] * 256 + buffer[1]

\* ReadBytesExt::read_u32::<LittleEndian> / ::<BigEndian> on a 4-byte buffer
ReadU32LE(buffer) == U32(buffer[4] * 256 + buffer[3], buffer[2] * 256 + buffer[1])
ReadU32BE(buffer) == U32(buffer[1] * 256 + buffer[2], buffer[3] * 256 + buffer[4])

U16Digits(x) == <<x % 256, x \div 256>>
U32Digits(x) == U16Digits(x[2]) \o U16Digits(x[1])

\* digits * c for a factor c below 2^16: two more digits hold the product
RECURSIVE DigitsTimes(_, _, _)
DigitsTimes(digits, c, carry) ==
    IF digits = <<>> THEN <<carry % 256, carry \div 256>>
    ELSE LET t == Head(digits) * c + carry
         IN  <<t % 256>> \o DigitsTimes(Tail(digits), c, t \div 256)

\* digits / 8, rounded down
RECURSIVE DigitsDiv8(_, _)
DigitsDiv8(digits, rem) ==
    IF digits = <<>> THEN <<>>
    ELSE LET t == rem * 256 + digits[Len(digits)]
         IN  DigitsDiv8(SubSeq(digits, 1, Len(digits) - 1), t % 8) \o <<t \div 8>>

DigitsFit(digits, n) == \A i \in (n + 1)..Len(digits) : digits[i] = 0

\* `a * c` in an unsigned type of n bytes: the wrapped product, and whether
\* the product overflows the type
WrappingMul(digits, c, n) ==
    LET product == DigitsTimes(digits, c, 0)
    IN  [overflow |-> ~DigitsFit(product, n), digits |-> SubSeq(product, 1, n)]

----------------------------------------------------------------------------
(* Reading a file through a handle: the cursor is a byte offset *)

RIFF == <<82, 73, 70, 70>>
RIFX == <<82, 73, 70, 88>>
WAVE == <<87, 65, 86, 69>>
FMT  == <<102, 109, 116, 32>>
DATA == <<100, 97, 116, 97>>

Min(a, b) == IF a < b THEN a ELSE b

\* Read::read_exact on a File: n bytes from the cursor, or an error once the
\* file ends first (the cursor is then at the end of the file)
ReadExact(file, pos, n) ==
    IF pos + n <= Len(file)
    THEN [ok |-> TRUE, bytes |-> SubSeq(file, pos + 1, pos + n), pos |-> pos + n]
    ELSE [ok |-> FALSE, bytes |-> <<>>, pos |-> IF pos > Len(file) THEN pos ELSE Len(file)]

Ok(v, pos)  == [tag |-> "Ok", err |-> "", val |-> v, pos |-> pos]
Err(e, v, pos) == [tag |-> "Err", err |-> e, val |-> v, pos |-> pos]
Panicked(v, pos) == [tag |-> "Panic", err |-> "", val |-> v, pos |-> pos]

\* what a Result shows to the caller: the cursor is the handle's, not part
\* of the value
Returned(r) == [tag |-> r.tag, err |-> r.err, val |-> r.val]

----------------------------------------------------------------------------
(* WaveReader::read_riff_chunk *)

NoRiffChunk == [file_size |-> U32(0, 0), is_big_endian |-> FALSE]

\* a reader that takes every header for little-endian
RiffFileSizeLittleOnly(riff_id, buffer) == ReadU32LE(buffer)

\* `let file_size = if &riff_id == b"RIFF" { LittleEndian } else { BigEndian }`
RiffFileSize(riff_id, buffer) ==
    IF riff_id = RIFF THEN ReadU32LE(buffer) ELSE ReadU32BE(buffer)

read_riff_chunk(file, pos) ==
    LET riff_id == ReadExact(file, pos, 4)
        buffer  == ReadExact(file, riff_id.pos, 4)
        wave_id == ReadExact(file, buffer.pos, 4)
    IN  IF ~riff_id.ok THEN Err("ReadError", NoRiffChunk, riff_id.pos)
        ELSE IF riff_id.bytes # RIFF /\ riff_id.bytes # RIFX
             THEN Err("NotRiffError", NoRiffChunk, riff_id.pos)
        ELSE IF ~buffer.ok THEN Err("ReadError", NoRiffChunk, buffer.pos)
        ELSE IF ~wave_id.ok THEN Err("ReadError", NoRiffChunk, wave_id.pos)
        ELSE IF wave_id.bytes # WAVE
             THEN Err("NotWaveError", NoRiffChunk, wave_id.pos)
        ELSE Ok([file_size |-> RiffFileSize(riff_id.bytes, buffer.bytes),
                 is_big_endian |-> riff_id.bytes = RIFX], wave_id.pos)

----------------------------------------------------------------------------
(* PCMWaveFormatChunk::byte_rate, ::block_align, WaveReader::read_fmt_chunk *)

NoFormatChunk == [num_channels |-> 0, samp_rate |-> U32(0, 0), bps |-> 0]

\* `self.samp_rate as u32 * self.num_channels as u32 * self.bps as u32 / 8`:
\* two u32 multiplications, each of which may overflow, then the division
byte_rate(fmt) ==
    LET first  == WrappingMul(U32Digits(fmt.samp_rate), fmt.num_channels, 4)
        second == WrappingMul(first.digits, fmt.bps, 4)
    IN  [overflow |-> first.overflow \/ second.overflow,
         digits |-> DigitsDiv8(second.digits, 0)]

\* `self.num_channels as u16 * self.bps as u16 / 8`
block_align(fmt) ==
    LET product == WrappingMul(U16Digits(fmt.num_channels), fmt.bps, 2)
    IN  [overflow |-> product.overflow, digits |-> DigitsDiv8(product.digits, 0)]

\* the tail of read_fmt_chunk, from `let fmt_chunk = ...`: an overflowing
\* multiplication panics in a build that checks overflow and wraps otherwise
FmtVerdict(fmt_chunk, declared_byte_rate, declared_block_align, checks, pos) ==
    LET rate  == byte_rate(fmt_chunk)
        align == block_align(fmt_chunk)
    IN  IF checks /\ rate.overflow THEN Panicked(NoFormatChunk, pos)
        ELSE IF U32Digits(declared_byte_rate) # rate.digits
             THEN Err("DataAlignmentError", NoFormatChunk, pos)
        ELSE IF checks /\ align.overflow THEN Panicked(NoFormatChunk, pos)
        ELSE IF U16Digits(declared_block_align) # align.digits
             THEN Err("DataAlignmentError", NoFormatChunk, pos)
        ELSE Ok(fmt_chunk, pos)

read_fmt_chunk(file, pos, checks) ==
    LET fmt_id       == ReadExact(file, pos, 4)
        fmt_size     == ReadExact(file, fmt_id.pos, 4)
        audio_format == ReadExact(file, fmt_size.pos, 2)
        num_channels == ReadExact(file, audio_format.pos, 2)
        samp_rate    == ReadExact(file, num_channels.pos, 4)
        rate         == ReadExact(file, samp_rate.pos, 4)
        align        == ReadExact(file, rate.pos, 2)
        bps          == ReadExact(file, align.pos, 2)
    IN  IF ~fmt_id.ok THEN Err("ReadError", NoFormatChunk, fmt_id.pos)
        ELSE IF fmt_id.bytes # FMT
             THEN Err("ChunkTypeError", NoFormatChunk, fmt_id.pos)
        ELSE IF ~fmt_size.ok THEN Err("ReadError", NoFormatChunk, fmt_size.pos)
        ELSE IF ~audio_format.ok
             THEN Err("ReadError", NoFormatChunk, audio_format.pos)
        ELSE IF ReadU16LE(audio_format.bytes) # 1
             THEN Err("NotPCMError", NoFormatChunk, audio_format.pos)
        ELSE IF ~num_channels.ok
             THEN Err("ReadError", NoFormatChunk, num_channels.pos)
        ELSE IF ~samp_rate.ok THEN Err("ReadError", NoFormatChunk, samp_rate.pos)
        ELSE IF ~rate.ok THEN Err("ReadError", NoFormatChunk, rate.pos)
        ELSE IF ~align.ok THEN Err("ReadError", NoFormatChunk, align.pos)
        ELSE IF ~bps.ok THEN Err("ReadError", NoFormatChunk, bps.pos)
        ELSE FmtVerdict([num_channels |-> ReadU16LE(num_channels.bytes),
                         samp_rate |-> ReadU32LE(samp_rate.bytes),
                         bps |-> ReadU16LE(bps.bytes)],
                        ReadU32LE(rate.bytes), ReadU16LE(align.bytes),
                        checks, bps.pos)

----------------------------------------------------------------------------
(* WaveReader::read_data_chunk and WaveReader::open_pcm *)

NoDataChunk == [size_bytes |-> U32(0, 0), format |-> NoFormatChunk, data_buf |-> <<>>]

\* the handle is left at start_pos + 4; data_buf is a BufReader over it
\* that has buffered nothing yet
read_data_chunk(file, start_pos, fmt_info) ==
    LET data_id == ReadExact(file, start_pos, 4)
        buffer  == ReadExact(file, data_id.pos, 4)
    IN  IF ~data_id.ok THEN Err("ReadError", NoDataChunk, data_id.pos)
        ELSE IF data_id.bytes # DATA
             THEN Err("ChunkTypeError", NoDataChunk, data_id.pos)
        ELSE IF ~buffer.ok THEN Err("ReadError", NoDataChunk, buffer.pos)
        ELSE Ok([size_bytes |-> ReadU32LE(buffer.bytes), format |-> fmt_info,
                 data_buf |-> <<>>], start_pos + 4)

\* `while let Ok(data_chunk) = Self::read_data_chunk(fh.seek(Current(0))?, ..)`:
\* every clone of fh shares its offset, so each call starts where the last
\* one left the handle, and the first Err ends the loop
RECURSIVE ReadDataChunks(_, _, _, _)
ReadDataChunks(file, pos, fmt_header, data_chunks) ==
    LET r == read_data_chunk(file, pos, fmt_header)
    IN  IF r.tag = "Ok"
        THEN ReadDataChunks(file, r.pos, fmt_header, Append(data_chunks, r.val))
        ELSE [data_chunks |-> data_chunks, pos |-> r.pos]

NoWaveInfo == [riff_header |-> NoRiffChunk, fmt_header |-> NoFormatChunk,
               data_chunks |-> <<>>]

open_pcm(file, checks) ==
    LET riff_header == read_riff_chunk(file, 0)
        fmt_header  == read_fmt_chunk(file, riff_header.pos, checks)
        loop        == ReadDataChunks(file, fmt_header.pos, fmt_header.val, <<>>)
    IN  IF riff_header.tag # "Ok"
        THEN Err(riff_header.err, NoWaveInfo, riff_header.pos)
        ELSE IF fmt_header.tag = "Panic" THEN Panicked(NoWaveInfo, fmt_header.pos)
        ELSE IF fmt_header.tag # "Ok"
             THEN Err(fmt_header.err, NoWaveInfo, fmt_header.pos)
        ELSE Ok([riff_header |-> riff_header.val, fmt_header |-> fmt_header.val,
                 data_chunks |-> loop.data_chunks], loop.pos)

----------------------------------------------------------------------------
(* impl Iterator for PCMWaveDataChunk *)

\* the capacity io::BufReader::new gives its buffer
BufReaderCapacity == 8192

\* a read_exact that leaves the handle at the start of the file when it fails
RECURSIVE BufReadExactRewinding(_, _, _, _)
BufReadExactRewinding(file, pos, data_buf, n) ==
    IF Len(data_buf) >= n
    THEN [ok |-> TRUE, bytes |-> SubSeq(data_buf, 1, n),
          data_buf |-> SubSeq(data_buf, n + 1, Len(data_buf)), pos |-> pos]
    ELSE LET got == Min(BufReaderCapacity, Len(file) - pos)
         IN  IF got <= 0
             THEN [ok |-> FALSE, bytes |-> <<>>, data_buf |-> <<>>, pos |-> 0]
             ELSE BufReadExactRewinding(file, pos + got,
                                        data_buf \o SubSeq(file, pos + 1, pos + got), n)

\* read_exact on the chunk's BufReader: bytes come from its buffer, which is
\* refilled from the shared offset of the file when it runs out; at the end
\* of the file the read fails and what was buffered is gone
RECURSIVE BufReadExact(_, _, _, _)
BufReadExact(file, pos, data_buf, n) ==
    IF Len(data_buf) >= n
    THEN [ok |-> TRUE, bytes |-> SubSeq(data_buf, 1, n),
          data_buf |-> SubSeq(data_buf, n + 1, Len(data_buf)), pos |-> pos]
    ELSE LET got == Min(BufReaderCapacity, Len(file) - pos)
         IN  IF got <= 0
             THEN [ok |-> FALSE, bytes |-> <<>>, data_buf |-> <<>>, pos |-> pos]
             ELSE BufReadExact(file, pos + got,
                               data_buf \o SubSeq(file, pos + 1, pos + got), n)

SignExtend(x, bits) == IF x >= 2 ^ (bits - 1) THEN x - 2 ^ bits ELSE x

\* one arm of `match self.format.bps`
ReadSample(file, pos, data_buf, bps) ==
    LET r == BufReadExact(file, pos, data_buf, bps \div 8)
    IN  IF bps \notin {8, 16, 24}
        THEN [ok |-> FALSE, value |-> 0, data_buf |-> data_buf, pos |-> pos]
        ELSE IF ~r.ok
        THEN [ok |-> FALSE, value |-> 0, data_buf |-> r.data_buf, pos |-> r.pos]
        ELSE [ok |-> TRUE,
              value |-> CASE bps = 8  -> r.bytes[1]
                          [] bps = 16 -> SignExtend(r.bytes[1] + 256 * r.bytes[2], 16)
                          [] bps = 24 -> SignExtend(r.bytes[1] + 256 * r.bytes[2]
                                                    + 65536 * r.bytes[3], 24),
              data_buf |-> r.data_buf, pos |-> r.pos]

\* `for i in 0..self.format.num_channels`, from channel i on
RECURSIVE NextFrom(_, _, _, _, _, _)
NextFrom(file, pos, data_buf, format, i, sample) ==
    IF i >= format.num_channels
    THEN [item |-> Some(sample), data_buf |-> data_buf, pos |-> pos]
    ELSE LET r == ReadSample(file, pos, data_buf, format.bps)
         IN  IF ~r.ok
             THEN [item |-> None, data_buf |-> r.data_buf, pos |-> r.pos]
             ELSE NextFrom(file, r.pos, r.data_buf, format, i + 1,
                           Append(sample, r.value))

next(file, pos, chunk) == NextFrom(file, pos, chunk.data_buf, chunk.format, 0, <<>>)

----------------------------------------------------------------------------
(* Files for open_pcm: a RIFF header, a format chunk, data chunks, and     *)
(* whatever follows them                                                   *)

\* n as two and as four little-endian bytes
LE2(n) == <<n % 256, n \div 256>>
LE4(n) == <<n % 256, (n \div 256) % 256, (n \div 65536) % 256, n \div 16777216>>

\* the 24 bytes of a format chunk
FmtChunk(magic, audio_format, num_channels, samp_rate, rate, align, bps) ==
    magic \o LE4(16) \o LE2(audio_format) \o LE2(num_channels)
          \o LE4(samp_rate) \o LE4(rate) \o LE2(align) \o LE2(bps)

MaxChunks == 2
MaxNextCalls == 6
WavChannels == {1, 2}
\* the sample widths next() decodes, and one it does not
WavBps == {8, 16, 24, 32}
WavSampleRate == 44100
WavPayloads == {<<>>, <<1, 200>>, <<3, 4, 250, 6>>, <<7, 8, 9>>}
\* what follows the data chunks: nothing, two stray bytes, an empty LIST
\* chunk, or a chunk whose declared size is the bytes of 'data' (read_data_chunk
\* leaves the handle on the size, so open_pcm finds a second chunk there)
WavTails ==
    {<<>>, <<9, 9>>, <<76, 73, 83, 84, 0, 0, 0, 0>>,
     DATA \o DATA \o <<2, 0, 0, 0>> \o <<1, 200>>}

RECURSIVE DataChunkBytes(_)
DataChunkBytes(payloads) ==
    IF payloads = <<>> THEN <<>>
    ELSE DATA \o LE4(Len(Head(payloads))) \o Head(payloads)
              \o DataChunkBytes(Tail(payloads))

WavBody(layout) ==
    WAVE \o FmtChunk(FMT, 1, layout.num_channels, WavSampleRate,
                     (WavSampleRate * layout.num_channels * layout.bps) \div 8,
                     (layout.num_channels * layout.bps) \div 8, layout.bps)
         \o DataChunkBytes(layout.payloads) \o layout.tail

WavFile(layout) == RIFF \o LE4(Len(WavBody(layout))) \o WavBody(layout)

WavLayouts ==
    [num_channels : WavChannels, bps : WavBps,
     payloads : SeqsUpTo(WavPayloads, MaxChunks), tail : WavTails]

NoLayout == [num_channels |-> 1, bps |-> 8, payloads |-> <<>>, tail |-> <<>>]

OpenPcm ==
    /\ ~wav_call
    /\ \E layout \in WavLayouts, checks \in BOOLEAN :
        LET r == open_pcm(WavFile(layout), checks)
        IN  /\ wav_call' = TRUE
            /\ wav_layout' = layout
            /\ wav_file' = WavFile(layout)
            /\ wav_pos' = r.pos
            /\ wav_result' = [tag |-> r.tag, err |-> r.err]
            /\ wav_info' = [riff_header |-> r.val.riff_header,
                            fmt_header |-> r.val.fmt_header]
            /\ wav_chunks' = r.val.data_chunks
            /\ wav_items' = [i \in 1..Len(r.val.data_chunks) |-> <<>>]
    /\ UNCHANGED <<crcVars, utfVars, fxVars, riceVars, riffVars, fmtVars, winVars, bestVars, zzVars, precVars, quantVars, mpoVars, autocVars, coefVars>>

\* next() on a data chunk that has not been moved into a window
ChunkNext ==
    /\ wav_call
    /\ \E i \in 1..Len(wav_chunks) :
        /\ ~(win_call /\ i = win_index)
        /\ Len(wav_items[i]) < MaxNextCalls
        /\ LET r == next(wav_file, wav_pos, wav_chunks[i])
           IN  /\ wav_chunks' = [wav_chunks EXCEPT ![i].data_buf = r.data_buf]
               /\ wav_pos' = r.pos
               /\ wav_items' = [wav_items EXCEPT ![i] = Append(@, r.item)]
    /\ UNCHANGED <<wav_call, wav_layout, wav_file, wav_result, wav_info>>
    /\ UNCHANGED <<crcVars, utfVars, fxVars, riceVars, riffVars, fmtVars, winVars, bestVars, zzVars, precVars, quantVars, mpoVars, autocVars, coefVars>>

----------------------------------------------------------------------------
(* PCMWaveDataChunk::chunks and impl Iterator for PCMWaveDataChunkWindow.  *)
(* chunk_size is a usize, kept as its eight little-endian bytes (a 64-bit  *)
(* target).                                                                *)

UsizeBytes == 8

\* the bytes one element of the window takes: size_of::<Vec<i64>>()
FrameVecBytes == 24

Usize(n) == LE4(n) \o <<0, 0, 0, 0>>
UsizeMax == <<255, 255, 255, 255, 255, 255, 255, 255>>

\* `Vec::with_capacity(self.chunk_size)` panics with "capacity overflow"
\* when the buffer would take more than isize::MAX bytes
CapacityOverflow(chunk_size) ==
    LET bytes == DigitsTimes(chunk_size, FrameVecBytes, 0)
    IN  ~DigitsFit(bytes, UsizeBytes) \/ bytes[UsizeBytes] >= 128

\* `for _ in 0..self.chunk_size`, with `samples` gathered so far: the loop
\* ends after chunk_size frames or at the first None of the frame iterator
RECURSIVE WindowLoop(_, _, _, _, _)
WindowLoop(file, pos, chunk, chunk_size, samples) ==
    IF chunk_size = Usize(Len(samples))
    THEN [samples |-> samples, data_buf |-> chunk.data_buf, pos |-> pos]
    ELSE LET r == next(file, pos, chunk)
         IN  IF ~r.item.some
             THEN [samples |-> samples, data_buf |-> r.data_buf, pos |-> r.pos]
             ELSE WindowLoop(file, r.pos, [chunk EXCEPT !.data_buf = r.data_buf],
                             chunk_size, Append(samples, r.item.vec))

\* PCMWaveDataChunkWindow::next once the buffer is allocated
window_next(file, pos, chunk, chunk_size) ==
    LET r == WindowLoop(file, pos, chunk, chunk_size, <<>>)
    IN  [item |-> IF r.samples = <<>> THEN None ELSE Some(r.samples),
         data_buf |-> r.data_buf, pos |-> r.pos]

MaxWindowCalls == 5
WindowSizes == {Usize(1), Usize(2), Usize(3), UsizeMax}

\* `chunks(self, chunk_size)`: the chunk moves into the window
Chunks ==
    /\ wav_call /\ ~win_call
    /\ \E i \in 1..Len(wav_chunks), chunk_size \in WindowSizes :
        /\ win_call' = TRUE
        /\ win_index' = i
        /\ win_size' = chunk_size
        /\ win_start' = [pos |-> wav_pos, data_buf |-> wav_chunks[i].data_buf]
    /\ UNCHANGED <<win_pc, win_items, wavVars>>
    /\ UNCHANGED <<crcVars, utfVars, fxVars, riceVars, riffVars, fmtVars, bestVars, zzVars, precVars, quantVars, mpoVars, autocVars, coefVars>>

WindowNext ==
    /\ win_call /\ win_pc = "run" /\ Len(win_items) < MaxWindowCalls
    /\ ~CapacityOverflow(win_size)
    /\ LET r == window_next(wav_file, wav_pos, wav_chunks[win_index], win_size)
       IN  /\ wav_chunks' = [wav_chunks EXCEPT ![win_index].data_buf = r.data_buf]
           /\ wav_pos' = r.pos
           /\ win_items' = Append(win_items, r.item)
    /\ UNCHANGED <<win_call, win_index, win_size, win_start, win_pc>>
    /\ UNCHANGED <<wav_call, wav_layout, wav_file, wav_result, wav_info, wav_items>>
    /\ UNCHANGED <<crcVars, utfVars, fxVars, riceVars, riffVars, fmtVars, bestVars, zzVars, precVars, quantVars, mpoVars, autocVars, coefVars>>

WindowNextPanic ==
    /\ win_call /\ win_pc = "run" /\ Len(win_items) < MaxWindowCalls
    /\ CapacityOverflow(win_size)
    /\ win_pc' = "panic"
    /\ UNCHANGED <<win_call, win_index, win_size, win_start, win_items, wavVars>>
    /\ UNCHANGED <<crcVars, utfVars, fxVars, riceVars, riffVars, fmtVars, bestVars, zzVars, precVars, quantVars, mpoVars, autocVars, coefVars>>

----------------------------------------------------------------------------
(* Calls of read_riff_chunk and read_fmt_chunk on headers built field by   *)
(* field, as the unit tests of wav_tpl.rs build them                       *)

RiffMagics == {RIFF, RIFX, <<82, 73, 70, 71>>, <<0, 73, 70, 70>>}
RiffTypes == {WAVE, <<87, 65, 86, 0>>}
RiffSizeBytes == {0, 54, 64, 128}
RiffSample == RIFX \o <<0, 0, 0, 128>> \o WAVE

RiffHeaders ==
    {magic \o <<b1, b2, b3, b4>> \o type :
        magic \in RiffMagics, type \in RiffTypes,
        b1 \in RiffSizeBytes, b2 \in RiffSizeBytes,
        b3 \in RiffSizeBytes, b4 \in RiffSizeBytes}

\* a file that ends inside the header
RiffTruncated == {SubSeq(RiffSample, 1, n) : n \in 0..11}

ReadRiffChunk ==
    /\ ~riff_call
    /\ \E file \in RiffHeaders :
        /\ riff_call' = TRUE
        /\ riff_file' = file
        /\ riff_result' = Returned(read_riff_chunk(file, 0))
    /\ UNCHANGED <<crcVars, utfVars, fxVars, riceVars, fmtVars, wavVars, winVars, bestVars, zzVars, precVars, quantVars, mpoVars, autocVars, coefVars>>

ReadRiffChunkShort ==
    /\ ~riff_call
    /\ \E file \in RiffTruncated :
        /\ riff_call' = TRUE
        /\ riff_file' = file
        /\ riff_result' = Returned(read_riff_chunk(file, 0))
    /\ UNCHANGED <<crcVars, utfVars, fxVars, riceVars, fmtVars, wavVars, winVars, bestVars, zzVars, precVars, quantVars, mpoVars, autocVars, coefVars>>

FmtMagics == {FMT, <<0, 109, 116, 32>>}
FmtAudioFormats == {1, 3}
FmtChannels == {1, 2, 8192}
FmtSampleRates == {44100}
FmtByteRates == {0, 44100, 88200, 176400, 361267200, 722534400}
FmtBlockAligns == {0, 1, 2, 4, 8192, 16384}
FmtBps == {8, 16}

FmtChunks ==
    {FmtChunk(magic, audio_format, num_channels, samp_rate, rate, align, bps) :
        magic \in FmtMagics, audio_format \in FmtAudioFormats,
        num_channels \in FmtChannels, samp_rate \in FmtSampleRates,
        rate \in FmtByteRates, align \in FmtBlockAligns, bps \in FmtBps}

ReadFmtChunk ==
    /\ ~fmt_call
    /\ \E file \in FmtChunks, checks \in BOOLEAN :
        /\ fmt_call' = TRUE
        /\ fmt_file' = file
        /\ fmt_checks' = checks
        /\ fmt_result' = Returned(read_fmt_chunk(file, 0, checks))
    /\ UNCHANGED <<crcVars, utfVars, fxVars, riceVars, riffVars, wavVars, winVars, bestVars, zzVars, precVars, quantVars, mpoVars, autocVars, coefVars>>

----------------------------------------------------------------------------
(* Specifications *)

----------------------------------------------------------------------------
(* VarPredictor::get_best_precision *)

get_best_precision_short_table(bps, block_size) ==
    IF bps < 16 THEN (IF 2 + (bps \div 2) > 1 THEN 2 + (bps \div 2) ELSE 1)
    ELSE IF bps = 16
    THEN CASE block_size = 192 -> 7
           [] block_size = 384 -> 8
           [] block_size = 576 -> 9
           [] block_size = 1152 -> 10
           [] block_size = 2304 -> 11
           [] OTHER -> 13
    ELSE IF bps > 16
    THEN CASE block_size = 384 -> 12
           [] block_size = 1152 -> 13
           [] OTHER -> 14
    ELSE 16

get_best_precision(bps, block_size) ==
    IF bps < 16 THEN (IF 2 + (bps \div 2) > 1 THEN 2 + (bps \div 2) ELSE 1)
    ELSE IF bps = 16
    THEN CASE block_size = 192 -> 7
           [] block_size = 384 -> 8
           [] block_size = 576 -> 9
           [] block_size = 1152 -> 10
           [] block_size = 2304 -> 11
           [] block_size = 4608 -> 12
           [] OTHER -> 13
    ELSE IF bps > 16
    THEN CASE block_size = 384 -> 12
           [] block_size = 1152 -> 13
           [] OTHER -> 14
    ELSE 16

\* get_best_precision is called with every bit depth up to this one
MaxBps == 32

\* the block sizes of the table, and some that are not in it
PrecisionBlockSizes == {1, 191, 192, 193, 384, 576, 1152, 2304, 4096, 4608, 65535}

CallGetBestPrecision ==
    /\ ~prec_call
    /\ \E bps \in 0..MaxBps, block_size \in PrecisionBlockSizes :
        /\ prec_call' = TRUE
        /\ prec_bps' = bps
        /\ prec_block' = block_size
        /\ prec_out' = get_best_precision(bps, block_size)
    /\ UNCHANGED <<crcVars, utfVars, fxVars, riceVars, riffVars, fmtVars, wavVars, winVars, bestVars, zzVars, quantVars, mpoVars, autocVars, coefVars>>

----------------------------------------------------------------------------
(* VarPredictor::quantize_coeffs.  The f64 coefficients are the values     *)
(* mant * 2^exp with a sign; on these abs, max and the floor of log2 are    *)
(* exact.  The u32 values are pairs <<hi, lo>> of 16-bit halves.            *)

F64(neg, mant, exp) == [neg |-> neg, mant |-> mant, exp |-> exp]

F64Zero == F64(FALSE, 0, 0)

\* `num2.abs()`
F64Abs(x) == [x EXCEPT !.neg = FALSE]

\* a < b for two values that are not negative
F64Less(a, b) ==
    LET low == Min(a.exp, b.exp)
    IN  a.mant * Pow2(a.exp - low) < b.mant * Pow2(b.exp - low)

\* `num1.max(num2.abs())`
F64Max(a, b) == IF F64Less(a, b) THEN b ELSE a

\* `lpc_coefs.iter().fold(0.0_f64, |num1, &num2| num1.max(num2.abs()))`
RECURSIVE F64FoldMaxAbs(_, _, _)
F64FoldMaxAbs(lpc_coefs, i, num1) ==
    IF i > Len(lpc_coefs) THEN num1
    ELSE F64FoldMaxAbs(lpc_coefs, i + 1, F64Max(num1, F64Abs(lpc_coefs[i])))

RECURSIVE FloorLog2(_)
FloorLog2(n) == IF n < 2 THEN 0 ELSE 1 + FloorLog2(n \div 2)

\* `(abs_val.log2() + 1.0).floor() as u32`: log2(0.0) is -inf, and the cast
\* of a negative or infinitely negative f64 to u32 gives 0
F64Log2Plus1FloorAsU32(abs_val) ==
    IF abs_val.mant = 0 THEN 0
    ELSE LET floored == FloorLog2(abs_val.mant) + abs_val.exp + 1
         IN  IF floored < 0 THEN 0 ELSE floored

U32Of(n) == U32(n \div 65536, n % 65536)

U32Less(a, b) == a[1] < b[1] \/ (a[1] = b[1] /\ a[2] < b[2])

\* a - b modulo 2^32
U32WrappingSub(a, b) ==
    LET lo     == a[2] - b[2]
        borrow == IF lo < 0 THEN 1 ELSE 0
    IN  U32((a[1] - b[1] - borrow + 65536) % 65536, (lo + 65536) % 65536)

\* `x as i32`
U32AsI32(x) ==
    IF x[1] >= 32768 THEN (x[1] - 65536) * 65536 + x[2] ELSE x[1] * 65536 + x[2]

QuantOk(sf) == [tag |-> "Ok", shift |-> sf]
QuantPanic  == [tag |-> "Panic", shift |-> 0]

\* The shift of the pair quantize_coeffs returns.  `max_p1 - 1` and
\* `(precision - 1) - max_bits` are u32 subtractions: with overflow checks a
\* negative difference panics, without them it wraps.  The loop over the
\* coefficients (lines 127-141) fills `quantized` and leaves `sf` alone.
quantize_coeffs(lpc_coefs, precision, checks) ==
    LET abs_val  == F64FoldMaxAbs(lpc_coefs, 1, F64Zero)
        max_p1   == U32Of(F64Log2Plus1FloorAsU32(abs_val))
        max_bits == U32WrappingSub(max_p1, U32Of(1))
        less_one == U32WrappingSub(U32Of(precision), U32Of(1))
    IN  IF checks /\ (U32Less(max_p1, U32Of(1)) \/ U32Less(U32Of(precision), U32Of(1))
                      \/ U32Less(less_one, max_bits))
        THEN QuantPanic
        ELSE LET sf == U32AsI32(U32WrappingSub(less_one, max_bits))
             IN  QuantOk(IF sf < 0 THEN 0 ELSE sf)

\* at most this many coefficients in a call
MaxCoefs == 2

\* magnitudes from 2^-19 to 3 * 2^3, both signs, and zero
CoefExps == {-19, -2, -1, 0, 1, 3}
CoefValues == {F64Zero} \cup {F64(neg, mant, exp) : neg \in BOOLEAN, mant \in {1, 3}, exp \in CoefExps}

\* the smallest precisions, and those get_best_precision gives for 8 and
\* for 24 bits
QuantPrecisions == {1, 2, 6, 14}

CallQuantizeCoeffs ==
    /\ ~quant_call
    /\ \E lpc_coefs \in SeqsUpTo(CoefValues, MaxCoefs), precision \in QuantPrecisions,
          checks \in BOOLEAN :
        /\ quant_call' = TRUE
        /\ quant_coefs' = lpc_coefs
        /\ quant_precision' = precision
        /\ quant_checks' = checks
        /\ quant_out' = quantize_coeffs(lpc_coefs, precision, checks)
    /\ UNCHANGED <<crcVars, utfVars, fxVars, riceVars, riffVars, fmtVars, wavVars, winVars, bestVars, zzVars, precVars, mpoVars, autocVars, coefVars>>

----------------------------------------------------------------------------
(* RiceEncoderOptions::max_rice_partition_order *)

\* `block_size & mask == mask` for a mask of one bit
MaskSet(block_size, mask) == (block_size \div mask) % 2 = 1

max_rice_partition_order(block_size) ==
    IF MaskSet(block_size, 2) THEN 2
    ELSE IF MaskSet(block_size, 4) THEN 4
    ELSE IF MaskSet(block_size, 8) THEN 8
    ELSE IF MaskSet(block_size, 16) THEN 16
    ELSE IF MaskSet(block_size, 32) THEN 32
    ELSE IF MaskSet(block_size, 64) THEN 64
    ELSE IF MaskSet(block_size, 128) THEN 128
    ELSE 1

\* max_rice_partition_order is called with every block size up to this one
MaxBlockSize == 1200

\* and with the larger block sizes of the format
LargeBlockSizes == {2304, 4096, 4608, 16384, 65535}

CallMaxRicePartitionOrder ==
    /\ ~mpo_call
    /\ \E block_size \in (1..MaxBlockSize) \cup LargeBlockSizes :
        /\ mpo_call' = TRUE
        /\ mpo_block' = block_size
        /\ mpo_out' = max_rice_partition_order(block_size)
    /\ UNCHANGED <<crcVars, utfVars, fxVars, riceVars, riffVars, fmtVars, wavVars, winVars, bestVars, zzVars, precVars, quantVars, autocVars, coefVars>>

----------------------------------------------------------------------------
(* The f64 values of the LPC functions: a quotient of two integers, an      *)
(* infinity, or NaN.  Zero carries no sign.                                 *)

RFin(num, den) == [kind |-> "fin", num |-> num, den |-> den]
RInf(neg)      == [kind |-> "inf", num |-> IF neg THEN -1 ELSE 1, den |-> 1]
RNaN           == [kind |-> "nan", num |-> 0, den |-> 1]

RZero == RFin(0, 1)

----------------------------------------------------------------------------
(* VarPredictor::get_autocorrelation *)

AutocOk(vec) == [tag |-> "Ok", vec |-> vec]
AutocPanic   == [tag |-> "Panic", vec |-> <<>>]

\* `for x in 0..(data.len() - i) { sum += data[x] * data[x + i]; }`, from x on
RECURSIVE AutocSum(_, _, _, _)
AutocSum(data, i, x, sum) ==
    IF x >= Len(data) - i THEN sum
    ELSE AutocSum(data, i, x + 1, sum + data[x + 1] * data[x + i + 1])

\* `sum / (data.len() - i) as f64`
AutocQuotient(sum, count) ==
    IF count # 0 THEN RFin(sum, count) ELSE IF sum = 0 THEN RNaN ELSE RInf(sum < 0)

\* With i > data.len() the subtraction `data.len() - i` has no usize value:
\* it panics, or wraps and `data[x + i]` is out of bounds at x = 0.
get_autocorrelation(data, lag) ==
    IF Len(data) <= 1 THEN AutocOk([i \in 1..(lag + 1) |-> RZero])
    ELSE IF lag > Len(data) THEN AutocPanic
    ELSE AutocOk([i \in 1..(lag + 1) |->
                     AutocQuotient(AutocSum(data, i - 1, 0, 0), Len(data) - (i - 1))])

\* blocks of at most this many samples, lags up to this one
MaxBlock == 3
MaxLag == 3

AutocSamples == {-2, 0, 1, 3}

CallGetAutocorrelation ==
    /\ ~autoc_call
    /\ \E data \in SeqsUpTo(AutocSamples, MaxBlock), lag \in 0..MaxLag :
        /\ autoc_call' = TRUE
        /\ autoc_data' = data
        /\ autoc_lag' = lag
        /\ autoc_out' = get_autocorrelation(data, lag)
    /\ UNCHANGED <<crcVars, utfVars, fxVars, riceVars, riffVars, fmtVars, wavVars, winVars, bestVars, zzVars, precVars, quantVars, mpoVars, coefVars>>

----------------------------------------------------------------------------
(* f64 arithmetic on quotients, infinities and NaN *)

Sign(n) == IF n < 0 THEN -1 ELSE IF n > 0 THEN 1 ELSE 0

RNeg(a) == [a EXCEPT !.num = -a.num]

RMul(a, b) ==
    IF a.kind = "nan" \/ b.kind = "nan" THEN RNaN
    ELSE IF a.kind = "fin" /\ b.kind = "fin" THEN RFin(a.num * b.num, a.den * b.den)
    ELSE IF a.num = 0 \/ b.num = 0 THEN RNaN
    ELSE RInf(Sign(a.num) # Sign(b.num))

RAdd(a, b) ==
    IF a.kind = "nan" \/ b.kind = "nan" THEN RNaN
    ELSE IF a.kind = "fin" /\ b.kind = "fin"
         THEN RFin(a.num * b.den + b.num * a.den, a.den * b.den)
    ELSE IF a.kind = "inf" /\ b.kind = "inf" THEN (IF a.num = b.num THEN a ELSE RNaN)
    ELSE IF a.kind = "inf" THEN a ELSE b

RSub(a, b) == RAdd(a, RNeg(b))

RDiv(a, b) ==
    IF a.kind = "nan" \/ b.kind = "nan" THEN RNaN
    ELSE IF a.kind = "inf" THEN (IF b.kind = "inf" THEN RNaN
                                 ELSE RInf((a.num < 0) # (b.num < 0)))
    ELSE IF b.kind = "inf" THEN RZero
    ELSE IF b.num = 0 THEN (IF a.num = 0 THEN RNaN ELSE RInf(a.num < 0))
    ELSE RFin(a.num * b.den * Sign(b.num), a.den * b.num * Sign(b.num))

\* the dot product of the first n entries of two vectors
RECURSIVE RDot(_, _, _)
RDot(a, b, n) == IF n = 0 THEN RZero ELSE RAdd(RDot(a, b, n - 1), RMul(a[n], b[n]))

Reverse(v) == [x \in 1..Len(v) |-> v[Len(v) + 1 - x]]

----------------------------------------------------------------------------
(* VarPredictor::get_predictor_coeffs.  Vectors are 1-based here: index    *)
(* j of the source is entry j + 1.                                          *)

CoeffsOk(vec)   == [tag |-> "Ok", at |-> "", vec |-> vec]
\* a panic, and the expression of the source it happened at
CoeffsPanic(at) == [tag |-> "Panic", at |-> at, vec |-> <<>>]

\* `for x in 0..=a_rev.len() { a_prime.push(data_store[x] - (k*a_rev[x])); }`
\* from x on; CoeffsPanic when data_store[x] is out of bounds
RECURSIVE CoeffsUpdate(_, _, _, _, _)
CoeffsUpdate(data_store, a_rev, k, x, a_prime) ==
    IF x > Len(a_rev) THEN CoeffsOk(Append(a_prime, k))
    ELSE IF x >= Len(data_store) \/ x >= Len(a_rev) THEN CoeffsPanic("data_store[x]")
    ELSE CoeffsUpdate(data_store, a_rev, k, x + 1,
                      Append(a_prime, RSub(data_store[x + 1], RMul(k, a_rev[x + 1]))))

\* the body of `for i in 0..=(predictor_order-1)`, from iteration i on, with
\* `last` the value of predictor_order - 1
RECURSIVE CoeffsLoop(_, _, _, _)
CoeffsLoop(autoc, last, i, data_store) ==
    IF i > last THEN CoeffsOk(data_store)
    ELSE IF i + 1 >= Len(autoc) THEN CoeffsPanic("autoc[y+1]")
    ELSE IF i + 2 >= Len(autoc) THEN CoeffsPanic("autoc[z+2]")
    ELSE LET a_rev   == Reverse(data_store)
             r_ss    == Reverse(SubSeq(autoc, 2, i + 2))
             k_num   == RSub(autoc[i + 3], RDot(r_ss, data_store, Len(data_store)))
             dotfacAB == SubSeq(r_ss, 2, i + 1)
             k_den   == RSub(autoc[1], IF i # 0 THEN RDot(dotfacAB, data_store, i)
                                       ELSE RZero)
             a_prime == CoeffsUpdate(data_store, a_rev, RDiv(k_num, k_den), 0, <<>>)
         IN  IF a_prime.tag # "Ok" THEN a_prime
             ELSE CoeffsLoop(autoc, last, i + 1, a_prime.vec)

\* `predictor_order - 1` underflows for order 0: a panic with overflow
\* checks, u32::MAX without.  The loop panics before i passes autoc.len(),
\* which stands for u32::MAX as the last iteration here.
get_predictor_coeffs(autoc, predictor_order, checks) ==
    IF Len(autoc) < 2 THEN CoeffsPanic("autoc[1]")
    ELSE IF predictor_order = 0 /\ checks THEN CoeffsPanic("predictor_order-1")
    ELSE CoeffsLoop(autoc, IF predictor_order = 0 THEN Len(autoc)
                           ELSE predictor_order - 1,
                    0, <<RDiv(autoc[2], autoc[1])>>)

\* predictor orders up to this one
MaxOrder == 3

CallGetPredictorCoeffs ==
    /\ autoc_call /\ autoc_out.tag = "Ok"
    /\ ~coef_call
    /\ \E predictor_order \in 0..MaxOrder, checks \in BOOLEAN :
        /\ coef_call' = TRUE
        /\ coef_order' = predictor_order
        /\ coef_checks' = checks
        /\ coef_out' = get_predictor_coeffs(autoc_out.vec, predictor_order, checks)
    /\ UNCHANGED <<crcVars, utfVars, fxVars, riceVars, riffVars, fmtVars, wavVars, winVars, bestVars, zzVars, precVars, quantVars, mpoVars, autocVars>>

----------------------------------------------------------------------------
Init ==
    /\ crc_call = "none" /\ crc_opts = CrcOptionsNew(0, 0) /\ crc_data = <<>>
    /\ crc_pc = "idle" /\ crc_i = 0 /\ crc_comb = BvZero /\ crc_counter = 0
    /\ crc_dividend = 0 /\ crc_result = 0
    /\ utf_call = FALSE /\ utf_num = <<0, 0>> /\ utf_out = <<>>
    /\ fx_call = FALSE /\ fx_data = <<>> /\ fx_order = 0
    /\ fx_out = None
    /\ rice_call = FALSE /\ rice_param = 0 /\ rice_residuals = <<>>
    /\ rice_out = [returned |-> FALSE, absolute_residuals |-> <<>>]
    /\ riff_call = FALSE /\ riff_file = <<>>
    /\ riff_result = Returned(Ok(NoRiffChunk, 0))
    /\ fmt_call = FALSE /\ fmt_file = <<>> /\ fmt_checks = FALSE
    /\ fmt_result = Returned(Ok(NoFormatChunk, 0))
    /\ wav_call = FALSE /\ wav_layout = NoLayout /\ wav_file = <<>>
    /\ wav_pos = 0 /\ wav_result = [tag |-> "Ok", err |-> ""]
    /\ wav_info = [riff_header |-> NoRiffChunk, fmt_header |-> NoFormatChunk]
    /\ wav_chunks = <<>> /\ wav_items = <<>>
    /\ win_call = FALSE /\ win_index = 0 /\ win_size = Usize(0)
    /\ win_start = [pos |-> 0, data_buf |-> <<>>]
    /\ win_pc = "run" /\ win_items = <<>>
    /\ best_call = FALSE /\ best_data = <<>> /\ best_out = NoOrder
    /\ zz_call = FALSE /\ zz_num = 0 /\ zz_out = 0
    /\ prec_call = FALSE /\ prec_bps = 0 /\ prec_block = 0 /\ prec_out = 0
    /\ quant_call = FALSE /\ quant_coefs = <<>> /\ quant_precision = 0
    /\ quant_checks = FALSE /\ quant_out = [tag |-> "Ok", shift |-> 0]
    /\ mpo_call = FALSE /\ mpo_block = 0 /\ mpo_out = 0
    /\ autoc_call = FALSE /\ autoc_data = <<>> /\ autoc_lag = 0
    /\ autoc_out = [tag |-> "Ok", vec |-> <<>>]
    /\ coef_call = FALSE /\ coef_order = 0 /\ coef_checks = FALSE
    /\ coef_out = [tag |-> "Ok", at |-> "", vec |-> <<>>]

NextRiff == ReadRiffChunk \/ ReadRiffChunkShort

SpecRiff == Init /\ [][NextRiff]_vars

NextFmt == ReadFmtChunk

SpecFmt == Init /\ [][NextFmt]_vars

NextWav == OpenPcm \/ ChunkNext

SpecWav == Init /\ [][NextWav]_vars

NextWindow == OpenPcm \/ Chunks \/ WindowNext \/ WindowNextPanic

SpecWindow == Init /\ [][NextWindow]_vars

NextBest == CallBestPredictorOrder

SpecBest == Init /\ [][NextBest]_vars

NextZigzag == CallZigzag

SpecZigzag == Init /\ [][NextZigzag]_vars

NextCrc ==
    \/ SampleCrc8 \/ SampleCrc16 \/ CallBuildCrc8 \/ CallBuildCrc16
    \/ CrcPackStep \/ CrcStartDivision
    \/ CrcLoopXor \/ CrcLoopShift \/ CrcILog2Panic \/ CrcReturn

SpecCrc == Init /\ [][NextCrc]_vars

NextUtf8 == SampleUtf8 \/ CallUtf8Encode

SpecUtf8 == Init /\ [][NextUtf8]_vars

NextFixed == SampleGetResiduals \/ CallGetResiduals

SpecFixed == Init /\ [][NextFixed]_vars

NextRice == SampleRiceEncode \/ CallRiceEncode

SpecRice == Init /\ [][NextRice]_vars

----------------------------------------------------------------------------
(* C1: for every non-empty byte sequence, build_crc8 with generator 0x07   *)
(* returns the remainder of the message with 8 zero bits appended divided  *)
(* MSB-first by 0x107 ([0x10] gives 0x70, the IETF header sample 0xBF).    *)
C1_Crc8IsLongDivision ==
    (crc_call = "crc8" /\ crc_data # <<>> /\ crc_pc \in {"done", "panic"}) =>
        (crc_pc = "done" /\ crc_result = RefCrc(crc_data, 7, 8))

(* C2: for every non-empty sequence of byte values passed as u16,          *)
(* build_crc16 with generator 0x8005 returns the standard CRC-16 of that   *)
(* byte message ([0x10, 0x00] gives 0xE003, the frame sample 0xAA9A).      *)
C2_Crc16IsLongDivision ==
    (crc_call = "crc16" /\ crc_data # <<>> /\ crc_pc \in {"done", "panic"}) =>
        (crc_pc = "done" /\ crc_result = RefCrc(crc_data, 32773, 16))

(* C3: for every n in 0..=68_719_476_735 encode(n) returns the bytes of    *)
(* the UTF-8-style table: the row's byte count, the row's prefix in the    *)
(* first byte, 10xxxxxx in every further byte, the bits of n MSB-first in  *)
(* the x slots (0 gives [0x00], 0x164 gives [0xC5, 0xA4]).                 *)
C3_Utf8FollowsTable ==
    utf_call => utf_out = TableEncode(utf_num)

(* C4: for every s with at least two samples get_residuals(s, 1) returns   *)
(* Some(r) with r[j] = s[j+1] - s[j] for every j in 0..len(s)-1, each      *)
(* difference taken between original samples; the IETF input gives its 15  *)
(* residuals.                                                              *)
C4_Order1IsFirstDifference ==
    (fx_call /\ fx_order = 1 /\ Len(fx_data) >= 2) =>
        /\ fx_out = Some(FlacResiduals(1, fx_data))
        /\ fx_data = FixedSampleIetf => fx_out.vec = FixedSampleIetfResiduals

(* C5: for every s and order k in 1..=4 with len(s) > k the result has     *)
(* exactly len(s) - k elements and its first element is the residual of    *)
(* sample index k.                                                         *)
C5_WarmUpLeftOut ==
    (fx_call /\ fx_order \in 1..4 /\ Len(fx_data) > fx_order) =>
        /\ fx_out.some
        /\ Len(fx_out.vec) = Len(fx_data) - fx_order
        /\ fx_out.vec[1] = FlacResiduals(fx_order, fx_data)[1]

(* C6: for a Rice parameter M in [0,30] and every residual vector r,       *)
(* encode(M, r) returns the stream that concatenates, per residual,        *)
(* zigzag(r_i) >> M zero bits, a 1 bit and the M low bits of zigzag(r_i),  *)
(* packed MSB-first into bytes, with param = M and extra_bits_len the      *)
(* count of unused bits of the last byte, in [0,7]; encode(3, [3,-1,-13])  *)
(* gives [0xE9, 0x12] with extra_bits_len 1.                               *)
C6_EncodeIsRiceCode ==
    rice_call =>
        /\ rice_out = FlacRiceStream(rice_param, rice_residuals)
        /\ rice_out.extra_bits_len \in 0..7
        /\ <<rice_param, rice_residuals>> = RiceSample03 =>
               (rice_out.stream = <<233, 18>> /\ rice_out.extra_bits_len = 1)

----------------------------------------------------------------------------
(* The WAV headers as the specification describes them *)

\* the unsigned value of four bytes, least significant byte first
LittleEndianU32(b) == U32(b[3] + 256 * b[4], b[1] + 256 * b[2])

\* the unsigned value of four bytes, most significant byte first
BigEndianU32(b) == LittleEndianU32(<<b[4], b[3], b[2], b[1]>>)

LittleEndianU16(b) == b[1] + 256 * b[2]

\* x as n base-256 digits
Widen(digits, n) == digits \o [i \in 1..(n - Len(digits)) |-> 0]

\* samp_rate * num_channels * bps / 8 and num_channels * bps / 8 over the
\* naturals, as digits
ExactByteRate(samp_rate, num_channels, bps) ==
    DigitsDiv8(DigitsTimes(DigitsTimes(U32Digits(samp_rate), num_channels, 0), bps, 0), 0)

ExactBlockAlign(num_channels, bps) ==
    DigitsDiv8(DigitsTimes(U16Digits(num_channels), bps, 0), 0)

\* the two's-complement value of little-endian bytes
RECURSIVE UnsignedLE(_)
UnsignedLE(b) == IF b = <<>> THEN 0 ELSE Head(b) + 256 * UnsignedLE(Tail(b))

SignedLE(b) ==
    IF b[Len(b)] >= 128 THEN UnsignedLE(b) - 256 ^ Len(b) ELSE UnsignedLE(b)

\* sample k (from 0) of a payload of interleaved samples: 8-bit samples are
\* unsigned, wider ones signed
PayloadSample(payload, k, bps) ==
    LET width == bps \div 8
        bytes == SubSeq(payload, k * width + 1, (k + 1) * width)
    IN  IF bps = 8 THEN bytes[1] ELSE SignedLE(bytes)

\* frame j (from 1) of a payload: one sample per channel
PayloadFrame(payload, j, num_channels, bps) ==
    [c \in 1..num_channels |-> PayloadSample(payload, (j - 1) * num_channels + c - 1, bps)]

\* C7: for a file made of a valid RIFF header, a valid fmt chunk and k >= 1
\* consecutive data chunks running to end-of-file, open_pcm returns Ok with
\* data_chunks of length k, in file order, the i-th entry having size_bytes
\* equal to the i-th chunk's declared size.
C7_OpenPcmFindsEveryDataChunk ==
    (wav_call /\ wav_layout.payloads # <<>> /\ wav_layout.tail = <<>>) =>
        /\ wav_result.tag = "Ok"
        /\ Len(wav_chunks) = Len(wav_layout.payloads)
        /\ \A i \in 1..Len(wav_chunks) :
               wav_chunks[i].size_bytes = U32(0, Len(wav_layout.payloads[i]))

\* C8: repeatedly calling next() on a data chunk returned by open_pcm yields
\* exactly size_bytes / block_align frames, decoded in order from the sample
\* bytes that follow the chunk's 8-byte header, and the call after those
\* frames returns None even when more bytes follow the chunk in the file.
C8_ChunkYieldsItsFrames ==
    (wav_call /\ wav_result.tag = "Ok") =>
        \A i \in 1..Min(Len(wav_chunks), Len(wav_layout.payloads)) :
            LET payload == wav_layout.payloads[i]
                format  == wav_chunks[i].format
                block   == (format.num_channels * format.bps) \div 8
                frames  == Len(payload) \div block
            IN  \A j \in 1..Len(wav_items[i]) :
                    /\ j <= frames =>
                           wav_items[i][j] =
                               Some(PayloadFrame(payload, j, format.num_channels,
                                                 format.bps))
                    /\ j = frames + 1 => wav_items[i][j] = None

\* C9: for a 12-byte header, read_riff_chunk returns NotRiffError when the
\* first four bytes are neither "RIFF" nor "RIFX", otherwise NotWaveError when
\* bytes 8..11 are not "WAVE", otherwise Ok with is_big_endian true exactly
\* for "RIFX" and file_size bytes 4..7 read big-endian for "RIFX" and
\* little-endian for "RIFF".
C9_RiffHeaderVerdict ==
    (riff_call /\ Len(riff_file) = 12) =>
        LET magic == SubSeq(riff_file, 1, 4)
            size  == SubSeq(riff_file, 5, 8)
            type  == SubSeq(riff_file, 9, 12)
        IN  IF magic # RIFF /\ magic # RIFX
            THEN riff_result.tag = "Err" /\ riff_result.err = "NotRiffError"
            ELSE IF type # WAVE
            THEN riff_result.tag = "Err" /\ riff_result.err = "NotWaveError"
            ELSE /\ riff_result.tag = "Ok"
                 /\ riff_result.val.is_big_endian = (magic = RIFX)
                 /\ riff_result.val.file_size =
                        IF magic = RIFX THEN BigEndianU32(size)
                        ELSE LittleEndianU32(size)

\* C9 happens: a "RIFX" header whose size bytes 00 00 00 80 were read as 128
C9_BigEndianHeaderRead ==
    /\ riff_call
    /\ riff_file = RiffSample
    /\ riff_result.tag = "Ok"
    /\ riff_result.val = [file_size |-> U32(0, 128), is_big_endian |-> TRUE]

\* C10: for a 24-byte format chunk, read_fmt_chunk returns ChunkTypeError
\* when the magic is not "fmt ", NotPCMError when audio_format is not 1,
\* DataAlignmentError when the declared byte_rate differs from
\* samp_rate * num_channels * bps / 8 or the declared block_align differs
\* from num_channels * bps / 8, and otherwise Ok with the declared
\* num_channels, samp_rate and bps.
C10_FmtChunkVerdict ==
    fmt_call =>
        LET magic        == SubSeq(fmt_file, 1, 4)
            audio_format == LittleEndianU16(SubSeq(fmt_file, 9, 10))
            num_channels == LittleEndianU16(SubSeq(fmt_file, 11, 12))
            samp_rate    == LittleEndianU32(SubSeq(fmt_file, 13, 16))
            rate         == SubSeq(fmt_file, 17, 20)
            align        == SubSeq(fmt_file, 21, 22)
            bps          == LittleEndianU16(SubSeq(fmt_file, 23, 24))
        IN  IF magic # FMT
            THEN fmt_result.tag = "Err" /\ fmt_result.err = "ChunkTypeError"
            ELSE IF audio_format # 1
            THEN fmt_result.tag = "Err" /\ fmt_result.err = "NotPCMError"
            ELSE IF \/ Widen(rate, 8) # ExactByteRate(samp_rate, num_channels, bps)
                    \/ Widen(align, 4) # ExactBlockAlign(num_channels, bps)
            THEN fmt_result.tag = "Err" /\ fmt_result.err = "DataAlignmentError"
            ELSE /\ fmt_result.tag = "Ok"
                 /\ fmt_result.val = [num_channels |-> num_channels,
                                      samp_rate |-> samp_rate, bps |-> bps]

----------------------------------------------------------------------------
(* Windows over a data chunk *)

\* the frames the chunk's own iterator yields from a given offset and
\* buffer, up to its first None
RECURSIVE FramesFrom(_, _, _)
FramesFrom(file, pos, chunk) ==
    LET r == next(file, pos, chunk)
    IN  IF ~r.item.some THEN <<>>
        ELSE <<r.item.vec>> \o FramesFrom(file, r.pos, [chunk EXCEPT !.data_buf = r.data_buf])

RECURSIVE Concat(_)
Concat(seqs) == IF seqs = <<>> THEN <<>> ELSE Head(seqs) \o Concat(Tail(seqs))

\* a <= b for two usize values
RECURSIVE UsizeLeq(_, _)
UsizeLeq(a, b) ==
    IF a = <<>> THEN TRUE
    ELSE IF a[Len(a)] # b[Len(b)] THEN a[Len(a)] < b[Len(b)]
    ELSE UsizeLeq(SubSeq(a, 1, Len(a) - 1), SubSeq(b, 1, Len(b) - 1))

IsPrefix(a, b) == Len(a) <= Len(b) /\ SubSeq(b, 1, Len(a)) = a

\* the windows handed out so far are what the claim describes
WindowsPartitionFrames ==
    LET yielded == SelectSeq(win_items, LAMBDA item : item.some)
        windows == [k \in 1..Len(yielded) |-> yielded[k].vec]
        frames  == FramesFrom(wav_file, win_start.pos,
                              [wav_chunks[win_index] EXCEPT
                                   !.data_buf = win_start.data_buf])
    IN  /\ IsPrefix(Concat(windows), frames)
        /\ \A k \in 1..Len(windows) :
               /\ Len(windows[k]) >= 1
               /\ UsizeLeq(Usize(Len(windows[k])), win_size)
               /\ k < Len(windows) => Usize(Len(windows[k])) = win_size
        /\ (\E k \in 1..Len(win_items) : ~win_items[k].some) =>
               /\ Concat(windows) = frames
               /\ \A k \in 1..Len(win_items) :
                      ~win_items[k].some =>
                          \A m \in k..Len(win_items) : ~win_items[m].some

\* C11 as stated: for every chunk_size n >= 1, the windows yielded by
\* chunks(n) concatenate to exactly the frames the chunk's frame iterator
\* would yield; every window but the last holds n frames, the last holds
\* between 1 and n, and an empty window is never yielded.
C11_WindowsForEverySize ==
    win_call => (win_pc = "run" /\ WindowsPartitionFrames)

\* what does hold: the same for every chunk_size whose window buffer
\* Vec::with_capacity can hold; for a larger one the first call of next()
\* panics before it reads a frame
WindowsWhenAllocated ==
    /\ (win_call /\ ~CapacityOverflow(win_size)) =>
           (win_pc = "run" /\ WindowsPartitionFrames)
    /\ (win_call /\ CapacityOverflow(win_size)) => win_items = <<>>

----------------------------------------------------------------------------
(* The best fixed predictor order *)

FeasibleOrders(s) == {k \in 0..4 : Len(s) > k}

\* the sum of the absolute values of the order-k residuals of s
AbsScore(k, s) ==
    LET r == FlacResiduals(k, s)
    IN  SumSeq([i \in 1..Len(r) |-> Abs(r[i])])

\* the lowest feasible order of least score
LeastScoreOrder(s) ==
    CHOOSE k \in FeasibleOrders(s) :
        \A j \in FeasibleOrders(s) :
            AbsScore(k, s) < AbsScore(j, s) \/ (AbsScore(k, s) = AbsScore(j, s) /\ k <= j)

\* C12: best_predictor_order(s) returns the order k, among the feasible
\* orders (k in 0..=4 with len(s) > k), whose residuals have the least sum
\* of absolute values, and the lowest such k when several orders tie.
C12_BestOrderIsLeastAbsSum ==
    (best_call /\ best_data # <<>>) =>
        best_out = SomeOrder(LeastScoreOrder(best_data))

----------------------------------------------------------------------------
(* When get_residuals has a result *)

C14_OrderZeroIsIdentity ==
    (fx_call /\ fx_order = 0 /\ fx_data # <<>>) => fx_out = Some(fx_data)

\* C14 happens: a block of three samples came back as it went in
C14_OrderZeroReturned ==
    fx_call /\ fx_order = 0 /\ fx_data = <<1, 2, -3>> /\ fx_out = Some(<<1, 2, -3>>)

----------------------------------------------------------------------------
(* Zigzag *)

\* the reference inverse: even codes are the non-negative numbers
UnZigzag(u) == IF u % 2 = 0 THEN u \div 2 ELSE -((u + 1) \div 2)

\* C15: for every signed r in a bounded range, zigzag(r) equals 2r when
\* r >= 0 and -2r-1 when r < 0; hence it is non-negative, injective (the
\* reference inverse recovers r), and zigzag(0)=0, zigzag(-1)=1, zigzag(1)=2.
C15_ZigzagFormula ==
    zz_call =>
        /\ zz_out = IF zz_num >= 0 THEN 2 * zz_num ELSE -2 * zz_num - 1
        /\ zz_out >= 0
        /\ UnZigzag(zz_out) = zz_num
        /\ zz_num = 0 => zz_out = 0
        /\ zz_num = -1 => zz_out = 1
        /\ zz_num = 1 => zz_out = 2

\* C15 happens: zigzag(-1) returned 1
C15_MinusOneIsOne == zz_call /\ zz_num = -1 /\ zz_out = 1

----------------------------------------------------------------------------
(* A decoder of the UTF-8-style table: the leading ones of the first byte  *)
(* give the byte count, the remaining bits of every byte the payload       *)

Malformed == <<"malformed">>

RECURSIVE LeadingOnes(_, _)
LeadingOnes(byte, k) ==
    IF k < 0 \/ BitOf(byte, k) = 0 THEN 0 ELSE 1 + LeadingOnes(byte, k - 1)

\* value * 64 + payload on the two limbs
U64Push(value, payload) ==
    LET low == value[2] * 64 + payload
    IN  U64(value[1] * 64 + low \div 1048576, low % 1048576)

RECURSIVE TableDecodeTail(_, _, _)
TableDecodeTail(bytes, j, value) ==
    IF j > Len(bytes) THEN value
    ELSE IF bytes[j] \div 64 # 2 THEN Malformed
    ELSE TableDecodeTail(bytes, j + 1, U64Push(value, bytes[j] % 64))

TableDecode(bytes) ==
    IF bytes = <<>> THEN Malformed
    ELSE LET ones == LeadingOnes(bytes[1], 7)
             k    == IF ones = 0 THEN 1 ELSE ones
         IN  IF ones = 1 \/ ones = 8 \/ Len(bytes) # k THEN Malformed
             ELSE TableDecodeTail(bytes, 2, U64(0, bytes[1] % Pow2(IF k = 1 THEN 7 ELSE 7 - k)))

\* C16: decoding the bytes Utf8Encoder::encode(n) returned gives n back, and
\* no other number of the table encodes to the same bytes
C16_DecodeGivesNumberBack ==
    utf_call =>
        /\ TableDecode(utf_out) = utf_num
        /\ \A other \in Utf8Inputs : other # utf_num => Utf8Encode(other) # utf_out

\* the decoder inverts the table itself
DecoderInvertsTable == utf_call => TableDecode(TableEncode(utf_num)) = utf_num

----------------------------------------------------------------------------
\* C17: build_crc8 and build_crc16 called on an empty sequence return 0
C17_EmptySequenceGivesZero ==
    (crc_call \in {"crc8", "crc16"} /\ crc_data = <<>> /\ crc_pc \in {"done", "panic"}) =>
        (crc_pc = "done" /\ crc_result = 0)

----------------------------------------------------------------------------
NextPrecision == CallGetBestPrecision

SpecPrecision == Init /\ [][NextPrecision]_vars

\* the precision table, by bit depth B and block size N
BestPrecisionTable(B, N) ==
    IF B < 16 THEN (IF 2 + B \div 2 < 1 THEN 1 ELSE 2 + B \div 2)
    ELSE LET rows == IF B = 16
                     THEN {<<192, 7>>, <<384, 8>>, <<576, 9>>, <<1152, 10>>,
                           <<2304, 11>>, <<4608, 12>>}
                     ELSE {<<384, 12>>, <<1152, 13>>}
         IN  IF \E row \in rows : row[1] = N
             THEN (CHOOSE row \in rows : row[1] = N)[2]
             ELSE IF B = 16 THEN 13 ELSE 14

\* C18: get_best_precision(bps, block_size) returns the table's precision:
\* max(1, 2 + bps/2) below 16 bits, the block size's row at 16 bits and
\* above 16 bits, and 13, respectively 14, for a block size without a row
C18_BestPrecisionIsTable ==
    prec_call => prec_out = BestPrecisionTable(prec_bps, prec_block)

\* C18 happens: sixteen bits and a block of 4608 gave 12
C18_SixteenBitsLargeBlock ==
    prec_call /\ prec_bps = 16 /\ prec_block = 4608 /\ prec_out = 12

----------------------------------------------------------------------------
NextQuantize == CallQuantizeCoeffs

SpecQuantize == Init /\ [][NextQuantize]_vars

\* the coefficients of the call that are largest in magnitude
LargestCoefs ==
    {c \in {F64Abs(quant_coefs[i]) : i \in 1..Len(quant_coefs)} :
        \A i \in 1..Len(quant_coefs) : ~F64Less(c, F64Abs(quant_coefs[i]))}

\* floor(log2(L_max)) of the call, for L_max > 0
FloorLog2OfLargest ==
    LET c == CHOOSE c \in LargestCoefs : TRUE IN FloorLog2(c.mant) + c.exp

\* S = P - 1 - floor(log2(L_max)), at most 31
ClampedRawShift == Min(31, quant_precision - 1 - FloorLog2OfLargest)

\* C19: quantize_coeffs returns, the shift it reports lies in 0..31, and it
\* is the raw shift P - 1 - floor(log2(L_max)) clamped to 31, or 0 when that
\* is negative
C19_ReportedShiftIsClampedRawShift ==
    quant_call =>
        /\ quant_out.tag = "Ok"
        /\ quant_out.shift \in 0..31
        /\ (LargestCoefs # {} /\ F64Zero \notin LargestCoefs) =>
               quant_out.shift = (IF ClampedRawShift < 0 THEN 0 ELSE ClampedRawShift)

\* the same for calls whose largest magnitude is at least 1 and at most
\* 2^(P-1), in either build
ShiftWhenInRange ==
    (quant_call /\ LargestCoefs # {} /\ F64Zero \notin LargestCoefs
       /\ FloorLog2OfLargest \in 0..(quant_precision - 1)) =>
        /\ quant_out.tag = "Ok"
        /\ quant_out.shift = ClampedRawShift

----------------------------------------------------------------------------
\* the entry get_residuals returned at sample index i (1-based) is the
\* sample minus the order's prediction from the samples before it
ResidualFromSamples(i) ==
    /\ i <= Len(fx_out.vec)
    /\ fx_out.vec[i] = fx_data[i] - FlacPrediction(fx_order, fx_data, i)

\* C20: for the orders 2, 3 and 4 and a block longer than the order, every
\* residual returned for a sample index from the order on is the sample
\* minus the prediction computed from the original samples
C20_HigherOrdersPredictFromSamples ==
    (fx_call /\ fx_order \in 2..4 /\ Len(fx_data) > fx_order) =>
        /\ fx_out.some
        /\ \A i \in (fx_order + 1)..Len(fx_data) : ResidualFromSamples(i)

\* the same for order 4, and for the first residual of the orders 2 and 3
FirstResidualFromSamples ==
    (fx_call /\ fx_order \in 2..4 /\ Len(fx_data) > fx_order) =>
        /\ fx_out.some
        /\ ResidualFromSamples(fx_order + 1)
        /\ fx_order = 4 => \A i \in 5..Len(fx_data) : ResidualFromSamples(i)

----------------------------------------------------------------------------
NextPartition == CallMaxRicePartitionOrder

SpecPartition == Init /\ [][NextPartition]_vars

\* the largest k with 2^k dividing N
RECURSIVE v2(_)
v2(N) == IF N % 2 = 1 THEN 0 ELSE 1 + v2(N \div 2)

\* C21: for a block size N >= 1 max_rice_partition_order(N) is the smaller
\* of 8 and the position of the least significant 1 bit of N, so 0 for
\* every odd N
C21_PartitionOrderIsValuation ==
    mpo_call => mpo_out = Min(8, v2(mpo_block))

\* the value returned is a single bit of the block size taken as a mask, and
\* it is 2^v2(N) for the even block sizes that 256 does not divide
PartitionOrderIsLowBitMask ==
    (mpo_call /\ mpo_block % 2 = 0 /\ mpo_block % 256 # 0) =>
        mpo_out = Pow2(v2(mpo_block))

----------------------------------------------------------------------------
\* what open_pcm owes a file whose data chunks are followed by `rest`: Ok
\* at the end of the file, ReadError for a header cut short, ChunkTypeError
\* for a magic that is not 'data'
VerdictAfterDataChunks(rest) ==
    IF rest = <<>> THEN [tag |-> "Ok", err |-> ""]
    ELSE IF Len(rest) < 4 THEN [tag |-> "Err", err |-> "ReadError"]
    ELSE IF SubSeq(rest, 1, 4) # DATA THEN [tag |-> "Err", err |-> "ChunkTypeError"]
    ELSE [tag |-> "Err", err |-> "ReadError"]

\* C22: open_pcm returns Err(ChunkTypeError) when the bytes after the
\* chunks begin with a magic other than 'data', Err(ReadError) when a
\* data-chunk header is cut short, and Ok only when well-formed data chunks
\* reach the end of the file
C22_OpenPcmRejectsBadChunks ==
    wav_call => wav_result = VerdictAfterDataChunks(wav_layout.tail)

\* whatever follows the format chunk, open_pcm returns Ok
OpenPcmAlwaysOk == wav_call => wav_result = [tag |-> "Ok", err |-> ""]

----------------------------------------------------------------------------
\* C23: the format chunk of every PCMWaveInfo open_pcm returns Ok, which is
\* the chunk read_fmt_chunk returned Ok, has bps 8, 16 or 24; a header
\* declaring another bits-per-sample value is rejected
C23_OnlySupportedBps ==
    wav_call =>
        /\ wav_result.tag = "Ok" => wav_info.fmt_header.bps \in {8, 16, 24}
        /\ wav_layout.bps \notin {8, 16, 24} => wav_result.tag = "Err"

\* the bps of the format chunk returned is the one the header declares
DeclaredBpsReturned ==
    wav_call => (wav_result.tag = "Ok" /\ wav_info.fmt_header.bps = wav_layout.bps)

----------------------------------------------------------------------------
NextLpc == CallGetAutocorrelation \/ CallGetPredictorCoeffs

SpecLpc == Init /\ [][NextLpc]_vars

\* the sum of s[i] * s[i + l] over i in 0..N-l
UnnormalizedSum(s, l) == SumSeq([i \in 1..(Len(s) - l) |-> s[i] * s[i + l]])

\* an f64 that is the integer n
IsInteger(value, n) == value.kind = "fin" /\ value.num = n * value.den

\* C24: for a block s of N >= 2 integer samples get_autocorrelation(s, lag)
\* returns lag + 1 elements, and its element l, for every l in 0..=lag below
\* N, is the sum of s[i] * s[i + l] over i in 0..N-l, not divided by N - l
C24_AutocorrelationIsUnnormalized ==
    (autoc_call /\ Len(autoc_data) >= 2) =>
        /\ autoc_out.tag = "Ok"
        /\ Len(autoc_out.vec) = autoc_lag + 1
        /\ \A l \in 0..autoc_lag :
               l < Len(autoc_data) =>
                   IsInteger(autoc_out.vec[l + 1], UnnormalizedSum(autoc_data, l))

\* the element l returned is that sum divided by N - l, for every lag up to N
AutocorrelationIsNormalized ==
    (autoc_call /\ Len(autoc_data) >= 2 /\ autoc_lag <= Len(autoc_data)) =>
        /\ autoc_out.tag = "Ok"
        /\ Len(autoc_out.vec) = autoc_lag + 1
        /\ \A l \in 0..autoc_lag :
               l < Len(autoc_data) =>
                   autoc_out.vec[l + 1] =
                       RFin(UnnormalizedSum(autoc_data, l), Len(autoc_data) - l)

----------------------------------------------------------------------------
\* C25: given R[0..=O] of exactly O + 1 elements with O >= 1 and
\* R[0] != 0, get_predictor_coeffs(R, O) stays inside R and returns exactly
\* O coefficients
C25_CoeffsStayInBounds ==
    (coef_call /\ coef_order >= 1 /\ Len(autoc_out.vec) = coef_order + 1
       /\ autoc_out.vec[1].num # 0) =>
        /\ coef_out.tag = "Ok"
        /\ Len(coef_out.vec) = coef_order

\* no call of get_predictor_coeffs returns
CoeffsNeverReturned == coef_call => coef_out.tag = "Panic"

\* with exactly 2 elements and order 1 the panic is the read of autoc[2]
OrderOneReadsPastEnd ==
    (coef_call /\ coef_order = 1 /\ Len(autoc_out.vec) = 2) =>
        coef_out = CoeffsPanic("autoc[z+2]")

----------------------------------------------------------------------------
\* C26: for a block of zero samples, whose autocorrelation has R[0] = 0,
\* get_autocorrelation followed by get_predictor_coeffs reports a
\* NumericDomain failure and returns no coefficients
C26_SilentBlockReportsFailure ==
    (coef_call /\ autoc_data # <<>> /\ \A i \in 1..Len(autoc_data) : autoc_data[i] = 0) =>
        (coef_out.tag = "Err" /\ coef_out.at = "NumericDomain")

\* a block of zero samples ends like any other block: in a panic at an index
\* out of bounds, or at the order's subtraction
SilentBlockPanics ==
    (coef_call /\ \A i \in 1..Len(autoc_data) : autoc_data[i] = 0) =>
        /\ coef_out.tag = "Panic"
        /\ coef_out.at \in {"autoc[1]", "autoc[z+2]", "data_store[x]", "predictor_order-1"}

----------------------------------------------------------------------------
\* C27: for every non-empty sequence that fits the 128-bit accumulator,
\* all-zero messages and messages whose dividend becomes 0 after an XOR
\* included, build_crc8 and build_crc16 return a value and do not abort
C27_CrcReturnsForNonEmpty ==
    (crc_call \in {"crc8", "crc16"} /\ crc_data # <<>> /\ Len(crc_data) <= MaxCrcLen) =>
        crc_pc # "panic"

\* the calls on a message of zeros end in a panic
ZeroMessagePanics ==
    (crc_call \in {"crc8", "crc16"} /\ crc_data # <<>>
       /\ \A i \in 1..Len(crc_data) : crc_data[i] = 0 /\ crc_pc \in {"done", "panic"}) =>
        crc_pc = "panic"

----------------------------------------------------------------------------
\* the frame iterators of a file and a window over one of them
NextIter == OpenPcm \/ ChunkNext \/ Chunks \/ WindowNext \/ WindowNextPanic

SpecIter == Init /\ [][NextIter]_vars

\* in the items an iterator returned, None is only followed by None
NoneIsFinal(items) ==
    \A j \in 1..(Len(items) - 1) : ~items[j].some => ~items[j + 1].some

\* C28: once next() of a PCMWaveDataChunk or of a PCMWaveDataChunkWindow
\* has returned None, every later call on that iterator returns None, also
\* after a trailing partial frame and for a bps the iterator does not decode
C28_NoneIsFinal ==
    /\ \A i \in 1..Len(wav_items) : NoneIsFinal(wav_items[i])
    /\ NoneIsFinal(win_items)

\* C28 happens: a chunk of 3 bytes read as frames of two 8-bit samples gave
\* one frame and then None twice, and the window over it None twice again
C28_NoneAfterPartialFrame ==
    /\ wav_call /\ win_call
    /\ wav_layout.num_channels = 2 /\ wav_layout.bps = 8
    /\ wav_layout.payloads = <<(<<7, 8, 9>>)>> /\ wav_layout.tail = <<>>
    /\ wav_items[win_index] = <<Some(<<7, 8>>), None, None>>
    /\ win_items = <<None, None>>

\* and for a width next() does not decode the first call already gives None
UnsupportedBpsGivesNone ==
    (wav_call /\ wav_layout.bps = 32) =>
        /\ \A i \in 1..Len(wav_items) : \A j \in 1..Len(wav_items[i]) : ~wav_items[i][j].some
        /\ \A j \in 1..Len(win_items) : ~win_items[j].some

====
